---- MODULE Spec2Model ----
(***************************************************************************)
(* The logo generator scripts of yuanchu.ai as a state machine.            *)
(*                                                                         *)
(* A behaviour is a session of at most MaxRuns script runs over one file   *)
(* system, each started once the run before it has completed.  Each run is *)
(* one Python process executing the straight-line                          *)
(* __main__ block of one of the three generator scripts; the block is      *)
(* flattened into a sequence of instructions (Program) and pc is the index *)
(* of the next instruction.  Every instruction may raise: an uncaught      *)
(* exception ends the process with exit code 1.                            *)
(***************************************************************************)
EXTENDS Integers, Sequences, FiniteSets, TLC

VARIABLES
    checkout,   \* directory the repository is checked out in (a path)
    fs,         \* the files on disk: path -> file record
    dirs,       \* the directories on disk
    run,        \* number of script runs started so far
    script,     \* the script the current process executes
    inv,        \* how the current process was invoked: cwd, argv, environment
    status,     \* "idle" | "running" | "done" | "crashed"
    pc,         \* index into Program(script) of the next instruction
    exc,        \* the exception that ended the process, "none" otherwise
    exitcode,   \* exit code of the process, -1 while it has none
    locals,     \* local variables of the finalize_fast frame: name -> image
    stdout,     \* the lines the current process printed
    written,    \* the paths the current process wrote, in order
    prevOut,    \* per script: paths and contents left by its last completed run
    suite,      \* a run of the page tests: the page files, the class state, the outcomes
    parser      \* an HTMLStructureParser instance and the events fed to it

vars == <<checkout, fs, dirs, run, script, inv, status, pc, exc, exitcode,
          locals, stdout, written, prevOut, suite, parser>>

----------------------------------------------------------------------------
(* Bounds of the model *)

MaxRuns == 2

----------------------------------------------------------------------------
(* Constants of generate_logos_png.py and generate_logos_v2.py *)

CANVAS == 2048
OUTPUT == 512
CENTER == CANVAS \div 2

THIN == 5
NORMAL == 7
MEDIUM == 10
THICK == 14

Min(a, b) == IF a < b THEN a ELSE b
Max(a, b) == IF a > b THEN a ELSE b
Abs(a) == IF a < 0 THEN -a ELSE a

WHITE == <<255, 255, 255, 255>>
WHITE_A(a) == <<255, 255, 255, Min(255, Max(0, a))>>
BLACK == <<0, 0, 0, 255>>
TRANSPARENT == <<0, 0, 0, 0>>
NoColor == <<>>

----------------------------------------------------------------------------
(* Paths: a path is a sequence of components below the root.  An argument   *)
(* given on the command line is absolute or relative to the cwd.            *)

RECURSIVE normpath(_)
normpath(p) ==
    IF p = <<>> THEN <<>>
    ELSE LET q == normpath(SubSeq(p, 1, Len(p) - 1))
             c == p[Len(p)]
         IN  IF c = "." THEN q
             ELSE IF c = ".." THEN (IF q = <<>> THEN <<>> ELSE SubSeq(q, 1, Len(q) - 1))
             ELSE Append(q, c)

abspath(arg, cwd) ==
    IF arg.abs THEN normpath(arg.parts) ELSE normpath(cwd \o arg.parts)

dirname(p) == SubSeq(p, 1, Len(p) - 1)

join(dir, name) == Append(dir, name)

RECURSIVE Prefixes(_)
Prefixes(p) == IF p = <<>> THEN {} ELSE {p} \cup Prefixes(dirname(p))

IsUnder(p, dir) ==
    /\ Len(p) >= Len(dir)
    /\ SubSeq(p, 1, Len(dir)) = dir

----------------------------------------------------------------------------
(* Drawing.  An image is a record: its mode, its size, the colour it was    *)
(* created with and the operations applied to it since, in order.  A        *)
(* polyline whose points the code computes in floating point is named by    *)
(* the loop that computes it (curve) and its number of points (n).          *)

Concat(ss) ==
    LET RECURSIVE cat(_)
        cat(k) == IF k = 0 THEN <<>> ELSE cat(k - 1) \o ss[k]
    IN  cat(Len(ss))

Curve(design, part, i) == [design |-> design, part |-> part, i |-> i]

Points(curve, n) == [curve |-> curve, n |-> n, xy |-> <<>>]

PointsXY(curve, xy) == [curve |-> curve, n |-> Len(xy), xy |-> xy]

DrawOp(op, bbox, start, end, fill, outline, width, pts, joint) ==
    [op |-> op, bbox |-> bbox, start |-> start, end |-> end, fill |-> fill,
     outline |-> outline, width |-> width, pts |-> pts, joint |-> joint]

BBox(cx, cy, radius) == <<cx - radius, cy - radius, cx + radius, cy + radius>>

NoPoints == Points(Curve("", "", 0), 0)

draw_circle(cx, cy, radius, color, width) ==
    <<DrawOp("ellipse", BBox(cx, cy, radius), 0, 0, NoColor, color, width, NoPoints, "")>>

draw_dot(cx, cy, radius, color) ==
    <<DrawOp("ellipse", BBox(cx, cy, radius), 0, 0, color, NoColor, 1, NoPoints, "")>>

draw_arc(cx, cy, radius, start_deg, end_deg, color, width) ==
    <<DrawOp("arc", BBox(cx, cy, radius), start_deg, end_deg, color, NoColor, width, NoPoints, "")>>

draw_smooth_line(points, color, width) ==
    IF points.n < 2 THEN <<>>
    ELSE <<DrawOp("line", <<>>, 0, 0, color, NoColor, width, points, "curve")>>

draw_line(points, color, width) ==
    <<DrawOp("line", <<>>, 0, 0, color, NoColor, width, points, "")>>

(* int(40 * sin(i * pi / 7)) for i = 0..6 *)
Sin7x40 == <<0, 17, 31, 38, 38, 31, 17>>

(* The dot of v1 drawn with a radius that passes the corners of the canvas *)
v1_singularity_draw_Wide ==
    draw_dot(CENTER, CENTER, 1500, WHITE)
    \o draw_circle(CENTER, CENTER, 400, WHITE_A(210), NORMAL)

v1_singularity_draw ==
    draw_dot(CENTER, CENTER, 30, WHITE)
    \o draw_circle(CENTER, CENTER, 400, WHITE_A(210), NORMAL)

v2_geodesic_convergence_draw ==
    Concat([i \in 1..7 |->
        draw_smooth_line(Points(Curve("v2_geodesic_convergence", "line", i - 1), 800),
                         WHITE_A(180 + Sin7x40[i]), THIN)])
    \o draw_dot(CENTER, CENTER, 28, WHITE)

(* v3: lengths are kept in hundredths of a pixel, which is exact here:      *)
(* margin = 245.76, usable = 1556.48, spacing = 194.56.                     *)
v3_alpha(i) ==
    LET margin == CANVAS * 12
        usable == CANVAS * 100 - 2 * margin
        spacing == usable \div 8
        base == margin + spacing * i
        dist_c == Abs(base - CENTER * 100)
    IN  Max(100, 230 - (dist_c \div 400))

v3_spacetime_warp_draw ==
    Concat([i \in 1..7 |->
        draw_smooth_line(Points(Curve("v3_spacetime_warp", "vertical", i), 600),
                         WHITE_A(v3_alpha(i)), THIN)])
    \o Concat([i \in 1..7 |->
        draw_smooth_line(Points(Curve("v3_spacetime_warp", "horizontal", i), 600),
                         WHITE_A(v3_alpha(i)), THIN)])
    \o draw_dot(CENTER, CENTER, 24, WHITE)

v4_tao_layers_draw ==
    draw_dot(CENTER, CENTER, 28, WHITE)
    \o draw_arc(CENTER, CENTER, 240, 190, 490, WHITE_A(230), NORMAL)
    \o draw_arc(CENTER, CENTER, 420, 20, 150, WHITE_A(190), NORMAL)
    \o draw_arc(CENTER, CENTER, 420, 200, 330, WHITE_A(190), NORMAL)
    \o draw_arc(CENTER, CENTER, 600, 350, 440, WHITE_A(140), NORMAL)
    \o draw_arc(CENTER, CENTER, 600, 120, 210, WHITE_A(140), NORMAL)
    \o draw_arc(CENTER, CENTER, 600, 230, 320, WHITE_A(140), NORMAL)

v5_broken_horizon_draw ==
    draw_dot(CENTER, CENTER, 28, WHITE)
    \o draw_arc(CENTER, CENTER, 420, 50, 330, WHITE_A(220), NORMAL)
    \o draw_arc(CENTER, CENTER, 260, 200, 10, WHITE_A(150), THIN)

(* v6: r = 30 + (max_r - 30) * x / (5 pi) with x = theta - offset = 0.005 t *)
(* and max_r = CANVAS * 0.44 > 30.  r > max_r exactly when x > 5 pi, i.e.   *)
(* 100 t > 100000 pi, and 314159 < 100000 pi < 314160; r < 30 exactly when  *)
(* x < 0.                                                                   *)

(* the spiral with a divisor of 2 pi * 0.5 *)
v6_breaks_Tight(t) == LET pi == 314159 IN 500 * t > pi

v6_breaks(t) == LET pi == 314159 IN 100 * t > pi

v6_continues(t) == 5 * t < 0

(* the values of t whose point is appended: those before the first break    *)
(* that are not skipped                                                     *)
v6_appended ==
    LET range == 0..(2000 - 1)
        stop == IF \E t \in range : v6_breaks(t)
                THEN CHOOSE t \in range : v6_breaks(t) /\ \A u \in range : v6_breaks(u) => t <= u
                ELSE 2000
    IN  { t \in range : t < stop /\ ~v6_continues(t) }

v6_golden_spiral_draw ==
    Concat([a \in 1..3 |->
        LET points == Points(Curve("v6_golden_spiral", "arm", a - 1), Cardinality(v6_appended))
        IN  IF points.n > 1
            THEN draw_smooth_line(points, WHITE_A(210 - (a - 1) * 30), THIN)
            ELSE <<>>])
    \o draw_dot(CENTER, CENTER, 26, WHITE)

(* The rings of v7 dimmed by 60 per layer, so that the outermost ring asks  *)
(* for an alpha below zero                                                  *)
v7_lensing_rings_draw_Steep ==
    Concat([i \in 1..5 |->
        LET layer == 5 - 1 - (i - 1)
        IN  draw_smooth_line(Points(Curve("v7_lensing_rings", "ring", layer), 900 + 1),
                             WHITE_A(230 - layer * 60), THIN)])
    \o draw_dot(CENTER, CENTER, 24, WHITE)

v7_lensing_rings_draw ==
    Concat([i \in 1..5 |->
        LET layer == 5 - 1 - (i - 1)
        IN  draw_smooth_line(Points(Curve("v7_lensing_rings", "ring", layer), 900 + 1),
                             WHITE_A(230 - layer * 30), THIN)])
    \o draw_dot(CENTER, CENTER, 24, WHITE)

v8_yuanchu_unity_draw ==
    draw_dot(CENTER, CENTER, 28, WHITE)
    \o draw_arc(CENTER, CENTER, 380, 40, 300, WHITE_A(220), NORMAL)
    \o draw_smooth_line(Points(Curve("v8_yuanchu_unity", "geodesic", 0), 1000), WHITE_A(170), THIN)
    \o draw_arc(CENTER, CENTER, 580, 150, 250, WHITE_A(110), THIN)

----------------------------------------------------------------------------
(* The five designs of generate_logos_v2.py *)

(* floor(sqrt(num / den)) *)
ISqrt(num, den) ==
    CHOOSE k \in 0..CENTER : k * k * den <= num /\ num < (k + 1) * (k + 1) * den

v2a_gravitational_displacement_draw ==
    LET offset == (CANVAS * 6) \div 100
        radius == (CANVAS * 18) \div 100
        inner_r == (radius * 55) \div 100
    IN  draw_circle(CENTER - offset, CENTER, radius, WHITE_A(200), NORMAL)
        \o draw_circle(CENTER + offset, CENTER, radius, WHITE_A(200), NORMAL)
        \o draw_arc(CENTER, CENTER, inner_r, 210, 330, WHITE_A(100), THIN)
        \o draw_dot(CENTER, CENTER, 28, WHITE)

(* v2b: rs = 81.92 and r_max = 778.24 are kept in hundredths.  With         *)
(* d = throat_y - y_line, int(2 * sqrt(rs * d / 1.1) * 1.2) is              *)
(* floor(sqrt(576 * 8192 * d / 11000)) = floor(sqrt(72 * 8192 * d / 1375)).  *)
v2b_throat_y == CENTER + ((CANVAS * 38 * 6) \div 1000)

v2b_reference_line(i) ==
    LET rs == CANVAS * 4
        r_max == CANVAS * 38
        y_line == v2b_throat_y - ((r_max * 8 * (i + 1)) \div 5000)
        d == v2b_throat_y - y_line
    IN  IF d > 0
        THEN LET half_w == ISqrt(72 * rs * d, 1375) + 60
                 alpha == 60 + i * 10
             IN  draw_line(PointsXY(Curve("v2b_schwarzschild_throat", "reference", i),
                                    <<<<CENTER - half_w, y_line>>, <<CENTER + half_w, y_line>>>>),
                           WHITE_A(alpha), THIN)
        ELSE <<>>

v2b_schwarzschild_throat_draw ==
    draw_smooth_line(Points(Curve("v2b_schwarzschild_throat", "left", 0), 800),
                     WHITE_A(210), NORMAL)
    \o draw_smooth_line(Points(Curve("v2b_schwarzschild_throat", "right", 0), 800),
                        WHITE_A(210), NORMAL)
    \o Concat([i \in 1..4 |-> v2b_reference_line(i - 1)])
    \o draw_dot(CENTER, v2b_throat_y, 26, WHITE)

(* v2c with the sub-arcs as wide as the branches *)
v2c_tao_emergence_draw_Flat ==
    LET origin_y == CENTER + 200
    IN  draw_dot(CENTER, origin_y, 30, WHITE)
        \o draw_smooth_line(Points(Curve("v2c_tao_emergence", "one", 0), 600),
                            WHITE_A(240), THICK)
        \o Concat([b \in 1..2 |->
             draw_smooth_line(Points(Curve("v2c_tao_emergence", "two", b), 500),
                              WHITE_A(200), MEDIUM)])
        \o Concat([j \in 1..6 |->
             LET b == ((j - 1) \div 3) + 1
                 k == (j - 1) % 3
             IN  draw_smooth_line(Points(Curve("v2c_tao_emergence", "three", 3 * b + k), 400),
                                  WHITE_A(170 - Abs(k - 1) * 30), MEDIUM)])

v2c_tao_emergence_draw ==
    LET origin_y == CENTER + 200
    IN  draw_dot(CENTER, origin_y, 30, WHITE)
        \o draw_smooth_line(Points(Curve("v2c_tao_emergence", "one", 0), 600),
                            WHITE_A(240), THICK)
        \o Concat([b \in 1..2 |->
             draw_smooth_line(Points(Curve("v2c_tao_emergence", "two", b), 500),
                              WHITE_A(200), MEDIUM)])
        \o Concat([j \in 1..6 |->
             LET b == ((j - 1) \div 3) + 1
                 k == (j - 1) % 3
             IN  draw_smooth_line(Points(Curve("v2c_tao_emergence", "three", 3 * b + k), 400),
                                  WHITE_A(170 - Abs(k - 1) * 30), NORMAL)])

(* v2d with an outer square that passes the canvas edge *)
v2d_light_cone_diamond_draw_Large ==
    LET radii == <<1100, 400, 260, 130>>
        alphas == <<120, 160, 200, 240>>
        widths == <<THIN, THIN, NORMAL, NORMAL>>
    IN  Concat([idx \in 1..4 |->
            draw_smooth_line(Points(Curve("v2d_light_cone_diamond", "square", radii[idx]), 4 + 1),
                             WHITE_A(alphas[idx]), widths[idx])])
        \o draw_dot(CENTER, CENTER, 28, WHITE)

v2d_light_cone_diamond_draw ==
    LET radii == <<550, 400, 260, 130>>
        alphas == <<120, 160, 200, 240>>
        widths == <<THIN, THIN, NORMAL, NORMAL>>
    IN  Concat([idx \in 1..4 |->
            draw_smooth_line(Points(Curve("v2d_light_cone_diamond", "square", radii[idx]), 4 + 1),
                             WHITE_A(alphas[idx]), widths[idx])])
        \o draw_dot(CENTER, CENTER, 28, WHITE)

v2e_gravitational_deflection_draw ==
    LET offsets == <<-480, -320, -160, 0, 160, 320, 480>>
        y_range == 750
        n == ((CENTER + y_range + 1) - (CENTER - y_range) + 1) \div 2
    IN  Concat([idx \in 1..7 |->
            LET x0_off == offsets[idx]
                alpha == IF x0_off = 0 THEN 240
                         ELSE Max(110, 240 - (Abs(x0_off) \div 3))
                w == IF x0_off = 0 THEN NORMAL ELSE THIN
            IN  draw_smooth_line(Points(Curve("v2e_gravitational_deflection", "line", x0_off), n),
                                 WHITE_A(alpha), w)])
        \o draw_dot(CENTER, CENTER, 28, WHITE)

(* The closure `draw` of each design function, by the name it is saved as *)
DrawFuncs ==
    [v1_singularity |-> v1_singularity_draw,
     v2_geodesic_convergence |-> v2_geodesic_convergence_draw,
     v3_spacetime_warp |-> v3_spacetime_warp_draw,
     v4_tao_layers |-> v4_tao_layers_draw,
     v5_broken_horizon |-> v5_broken_horizon_draw,
     v6_golden_spiral |-> v6_golden_spiral_draw,
     v7_lensing_rings |-> v7_lensing_rings_draw,
     v8_yuanchu_unity |-> v8_yuanchu_unity_draw,
     v2a_gravitational_displacement |-> v2a_gravitational_displacement_draw,
     v2b_schwarzschild_throat |-> v2b_schwarzschild_throat_draw,
     v2c_tao_emergence |-> v2c_tao_emergence_draw,
     v2d_light_cone_diamond |-> v2d_light_cone_diamond_draw,
     v2e_gravitational_deflection |-> v2e_gravitational_deflection_draw]

----------------------------------------------------------------------------
(* Instructions.  The __main__ block of each script is straight-line code;  *)
(* Program flattens it, with every call of finalize_fast or of a create_*   *)
(* function expanded in place.                                              *)

Instr(op, var, src, bg, f, name, text, ret) ==
    [op |-> op, var |-> var, src |-> src, bg |-> bg, f |-> f, name |-> name,
     text |-> text, ret |-> ret]

I_new_canvas(var, bg) == Instr("new_canvas", var, "", bg, "", "", "", FALSE)
I_draw(var, f) == Instr("draw", var, "", "", f, "", "", FALSE)
I_resize(var, src) == Instr("resize", var, src, "", "", "", "", FALSE)
I_save(src, name) == Instr("save", "", src, "", "", name, "", FALSE)
I_print(text) == Instr("print", "", "", "", "", "", text, FALSE)
I_print_return(text) == Instr("print", "", "", "", "", "", text, TRUE)
I_print_dir(text) == Instr("print_dir", "", "", "", "", "", text, FALSE)
I_makedirs == Instr("makedirs", "", "", "", "", "", "", FALSE)
I_write_svg(f, name) == Instr("write_svg", "", "", "", f, name, "", FALSE)

(* Variants of finalize_fast with one slip each *)
finalize_fast_SameSuffix(draw_func, name) ==
    << I_new_canvas("img_dark", "black"),
       I_draw("img_dark", draw_func),
       I_resize("dark", "img_dark"),
       I_save("dark", name \o "_dark.png"),
       I_new_canvas("img_trans", "transparent"),
       I_draw("img_trans", draw_func),
       I_resize("trans", "img_trans"),
       I_save("trans", name \o "_dark.png"),
       I_print_return("  " \o name \o "_dark.png + " \o name \o "_transparent.png") >>

finalize_fast_DrawOnDark(draw_func, name) ==
    << I_new_canvas("img_dark", "black"),
       I_draw("img_dark", draw_func),
       I_resize("dark", "img_dark"),
       I_save("dark", name \o "_dark.png"),
       I_new_canvas("img_trans", "transparent"),
       I_draw("img_dark", draw_func),
       I_resize("trans", "img_trans"),
       I_save("trans", name \o "_transparent.png"),
       I_print_return("  " \o name \o "_dark.png + " \o name \o "_transparent.png") >>

finalize_fast_SaveCanvas(draw_func, name) ==
    << I_new_canvas("img_dark", "black"),
       I_draw("img_dark", draw_func),
       I_resize("dark", "img_dark"),
       I_save("img_dark", name \o "_dark.png"),
       I_new_canvas("img_trans", "transparent"),
       I_draw("img_trans", draw_func),
       I_resize("trans", "img_trans"),
       I_save("img_trans", name \o "_transparent.png"),
       I_print_return("  " \o name \o "_dark.png + " \o name \o "_transparent.png") >>

finalize_fast_TransFirst(draw_func, name) ==
    << I_new_canvas("img_trans", "transparent"),
       I_draw("img_trans", draw_func),
       I_resize("trans", "img_trans"),
       I_save("trans", name \o "_transparent.png"),
       I_new_canvas("img_dark", "black"),
       I_draw("img_dark", draw_func),
       I_resize("dark", "img_dark"),
       I_save("dark", name \o "_dark.png"),
       I_print_return("  " \o name \o "_dark.png + " \o name \o "_transparent.png") >>

finalize_fast(draw_func, name) ==
    << I_new_canvas("img_dark", "black"),
       I_draw("img_dark", draw_func),
       I_resize("dark", "img_dark"),
       I_save("dark", name \o "_dark.png"),
       I_new_canvas("img_trans", "transparent"),
       I_draw("img_trans", draw_func),
       I_resize("trans", "img_trans"),
       I_save("trans", name \o "_transparent.png"),
       I_print_return("  " \o name \o "_dark.png + " \o name \o "_transparent.png") >>

v1_singularity == finalize_fast("v1_singularity", "v1_singularity")
v2_geodesic_convergence == finalize_fast("v2_geodesic_convergence", "v2_geodesic_convergence")
v3_spacetime_warp == finalize_fast("v3_spacetime_warp", "v3_spacetime_warp")
v4_tao_layers == finalize_fast("v4_tao_layers", "v4_tao_layers")
v5_broken_horizon == finalize_fast("v5_broken_horizon", "v5_broken_horizon")
v6_golden_spiral == finalize_fast("v6_golden_spiral", "v6_golden_spiral")
v7_lensing_rings == finalize_fast("v7_lensing_rings", "v7_lensing_rings")
v8_yuanchu_unity == finalize_fast("v8_yuanchu_unity", "v8_yuanchu_unity")

DonePng == "Done! 16 PNG files generated in "

(* __main__ with the completion line printed one design too early *)
Main_png_DoneEarly ==
    << I_print("=================================================="),
       I_print("YuanChu AI Logo Generator"),
       I_print("==================================================") >>
    \o v1_singularity
    \o v2_geodesic_convergence
    \o v3_spacetime_warp
    \o v4_tao_layers
    \o v5_broken_horizon
    \o v6_golden_spiral
    \o v7_lensing_rings
    \o << I_print("=================================================="),
          I_print_dir(DonePng),
          I_print("==================================================") >>
    \o v8_yuanchu_unity

Main_png ==
    << I_print("=================================================="),
       I_print("YuanChu AI Logo Generator"),
       I_print("==================================================") >>
    \o v1_singularity
    \o v2_geodesic_convergence
    \o v3_spacetime_warp
    \o v4_tao_layers
    \o v5_broken_horizon
    \o v6_golden_spiral
    \o v7_lensing_rings
    \o v8_yuanchu_unity
    \o << I_print("=================================================="),
          I_print_dir(DonePng),
          I_print("==================================================") >>

(* v2a saved under a name of the first generation *)
v2a_gravitational_displacement_V1Name ==
    finalize_fast("v2a_gravitational_displacement", "v1_singularity")

v2a_gravitational_displacement ==
    finalize_fast("v2a_gravitational_displacement", "v2a_gravitational_displacement")
v2b_schwarzschild_throat == finalize_fast("v2b_schwarzschild_throat", "v2b_schwarzschild_throat")
v2c_tao_emergence == finalize_fast("v2c_tao_emergence", "v2c_tao_emergence")
v2d_light_cone_diamond == finalize_fast("v2d_light_cone_diamond", "v2d_light_cone_diamond")
v2e_gravitational_deflection ==
    finalize_fast("v2e_gravitational_deflection", "v2e_gravitational_deflection")

DoneV2 == "Done! 10 PNG files generated in "

Main_v2 ==
    << I_print("======================================================="),
       I_print("YuanChu AI Logo Generator - V2 Edition"),
       I_print("======================================================="),
       I_print(""),
       I_print("A: gravitational displacement") >>
    \o v2a_gravitational_displacement
    \o << I_print("B: Schwarzschild throat") >>
    \o v2b_schwarzschild_throat
    \o << I_print("C: Tao emergence") >>
    \o v2c_tao_emergence
    \o << I_print("D: light cone diamond") >>
    \o v2d_light_cone_diamond
    \o << I_print("E: gravitational deflection") >>
    \o v2e_gravitational_deflection
    \o << I_print(""),
          I_print("======================================================="),
          I_print_dir(DoneV2),
          I_print("=======================================================") >>

(* generate_logos.py: each create_* function assembles its SVG text, opens  *)
(* its file for writing, writes the text and prints a line.                 *)
create(f, name) == << I_write_svg(f, name), I_print_return(name \o " ok") >>

DoneSvg == "10 SVG logos generated"

(* create_tao_two writing the file of create_tao_one *)
Main_svg_DupName ==
    << I_makedirs,
       I_print("=================================================="),
       I_print("primordial black hole logos"),
       I_print("==================================================") >>
    \o create("create_primordial_blackhole", "v1-primordial-blackhole.svg")
    \o create("create_schwarzschild", "v2-schwarzschild.svg")
    \o create("create_tao_one", "v3-tao-one.svg")
    \o create("create_tao_two", "v3-tao-one.svg")
    \o create("create_tao_three", "v5-tao-three.svg")
    \o create("create_tao_all", "v6-tao-universe.svg")
    \o create("create_riemann", "v7-riemann-geometry.svg")
    \o create("create_primordial_singularity", "v8-primordial-singularity.svg")
    \o create("create_accretion_disk", "v9-accretion-disk.svg")
    \o create("create_tao_blackhole", "v10-tao-blackhole.svg")
    \o << I_print("=================================================="),
          I_print(DoneSvg),
          I_print_dir("path: "),
          I_print("==================================================") >>

Main_svg ==
    << I_makedirs,
       I_print("=================================================="),
       I_print("primordial black hole logos"),
       I_print("==================================================") >>
    \o create("create_primordial_blackhole", "v1-primordial-blackhole.svg")
    \o create("create_schwarzschild", "v2-schwarzschild.svg")
    \o create("create_tao_one", "v3-tao-one.svg")
    \o create("create_tao_two", "v4-tao-two.svg")
    \o create("create_tao_three", "v5-tao-three.svg")
    \o create("create_tao_all", "v6-tao-universe.svg")
    \o create("create_riemann", "v7-riemann-geometry.svg")
    \o create("create_primordial_singularity", "v8-primordial-singularity.svg")
    \o create("create_accretion_disk", "v9-accretion-disk.svg")
    \o create("create_tao_blackhole", "v10-tao-blackhole.svg")
    \o << I_print("=================================================="),
          I_print(DoneSvg),
          I_print_dir("path: "),
          I_print("==================================================") >>

Scripts == {"generate_logos.py", "generate_logos_png.py", "generate_logos_v2.py"}

Program(s) ==
    CASE s = "generate_logos_png.py" -> Main_png
      [] s = "generate_logos_v2.py" -> Main_v2
      [] s = "generate_logos.py" -> Main_svg

----------------------------------------------------------------------------
(* The environment of a run *)

HardcodedDir == <<"Users", "jackiezhan", "github", "yuanchu.ai", "logo">>

(* Where the repository may be checked out *)
CheckoutDirs ==
    { <<"Users", "jackiezhan", "github", "yuanchu.ai">>,
      <<"home", "ci", "yuanchu.ai">> }

LogoDir == join(checkout, "logo")

ScriptPath(s) == join(LogoDir, s)

RECURSIVE CommonPrefixLen(_, _)
CommonPrefixLen(p, q) ==
    IF p = <<>> \/ q = <<>> \/ Head(p) # Head(q) THEN 0
    ELSE 1 + CommonPrefixLen(Tail(p), Tail(q))

(* The path that names target when typed in directory cwd *)
RelPath(target, cwd) ==
    LET k == CommonPrefixLen(target, cwd)
    IN  [i \in 1..(Len(cwd) - k) |-> ".."] \o SubSeq(target, k + 1, Len(target))

(* python3 <file> <argv...> started in cwd with environment env *)
Invocations(s) ==
    { [cwd |-> LogoDir, file |-> [abs |-> FALSE, parts |-> RelPath(ScriptPath(s), LogoDir)],
       argv |-> <<>>, env |-> {}],
      [cwd |-> checkout, file |-> [abs |-> TRUE, parts |-> ScriptPath(s)],
       argv |-> <<"--out", "/tmp">>, env |-> {}],
      [cwd |-> <<"tmp">>, file |-> [abs |-> FALSE, parts |-> RelPath(ScriptPath(s), <<"tmp">>)],
       argv |-> <<"--out", "/tmp">>, env |-> {"OUTPUT_DIR=/tmp"}] }

(* OUTPUT_DIR taken from the working directory *)
OUTPUT_DIR_png_Cwd(file, cwd) == cwd

(* OUTPUT_DIR = os.path.dirname(os.path.abspath(__file__)) *)
OUTPUT_DIR_png(file, cwd) == dirname(abspath(file, cwd))

OUTPUT_DIR_v2(file, cwd) == dirname(abspath(file, cwd))

(* OUTPUT_DIR = '/Users/jackiezhan/github/yuanchu.ai/logo' *)
OUTPUT_DIR_svg(file, cwd) == HardcodedDir

OUTPUT_DIR ==
    CASE script = "generate_logos_png.py" -> OUTPUT_DIR_png(inv.file, inv.cwd)
      [] script = "generate_logos_v2.py" -> OUTPUT_DIR_v2(inv.file, inv.cwd)
      [] script = "generate_logos.py" -> OUTPUT_DIR_svg(inv.file, inv.cwd)

----------------------------------------------------------------------------
(* Images and files *)

NoImage == [mode |-> "", size |-> <<0, 0>>, bg |-> NoColor, ops |-> <<>>]

Locals == {"img_dark", "dark", "img_trans", "trans"}

NoLocals == [v \in Locals |-> NoImage]

ImageNew(mode, size, color) == [mode |-> mode, size |-> size, bg |-> color, ops |-> <<>>]

new_canvas(bg) ==
    IF bg = "black"
    THEN ImageNew("RGBA", <<CANVAS, CANVAS>>, BLACK)
    ELSE ImageNew("RGBA", <<CANVAS, CANVAS>>, TRANSPARENT)

(* draw_func(ImageDraw.Draw(img)): the drawing calls act on img in place *)
Draw(img, draw_func) == [img EXCEPT !.ops = @ \o DrawFuncs[draw_func]]

ResizeOp(from, to, resample) ==
    DrawOp("resize", <<>>, 0, 0, NoColor, NoColor, 0,
           PointsXY(Curve(resample, "", 0), <<from, to>>), "")

(* img.resize(size, resample): a new image, img itself is not changed *)
Resize(img, size, resample) ==
    [img EXCEPT !.size = size, !.ops = Append(@, ResizeOp(img.size, size, resample))]

PngFile(img) ==
    [fmt |-> "PNG", complete |-> TRUE, mode |-> img.mode, size |-> img.size,
     bg |-> img.bg, ops |-> img.ops, body |-> "", mtime |-> run]

SvgFile(f) ==
    [fmt |-> "SVG", complete |-> TRUE, mode |-> "", size |-> <<512, 512>>,
     bg |-> NoColor, ops |-> <<>>, body |-> f, mtime |-> run]

(* What an interrupted write leaves behind: the file opened for writing,   *)
(* truncated, with none or part of its content.                             *)
PartialFile ==
    [fmt |-> "", complete |-> FALSE, mode |-> "", size |-> <<0, 0>>,
     bg |-> NoColor, ops |-> <<>>, body |-> "", mtime |-> run]

Content(file) == [file EXCEPT !.mtime = 0]

PutFile(path, file) ==
    [p \in (DOMAIN fs) \cup {path} |-> IF p = path THEN file ELSE fs[p]]

----------------------------------------------------------------------------
(* The state machine *)

NoInv == [cwd |-> <<>>, file |-> [abs |-> TRUE, parts |-> <<>>], argv |-> <<>>, env |-> {}]

NoSnapshot == [done |-> FALSE, run |-> 0, inv |-> NoInv, files |-> <<>>]

Range(seq) == {seq[i] : i \in DOMAIN seq}

(* No test run and no parser *)
NoSuite == <<>>

NoParser == <<>>

Init ==
    /\ suite = NoSuite
    /\ parser = NoParser
    /\ checkout \in CheckoutDirs
    /\ fs = [p \in {} |-> PartialFile]
    /\ dirs = Prefixes(join(checkout, "logo")) \cup {<<"tmp">>}
    /\ run = 0
    /\ script = ""
    /\ inv = NoInv
    /\ status = "idle"
    /\ pc = 0
    /\ exc = "none"
    /\ exitcode = -1
    /\ locals = NoLocals
    /\ stdout = <<>>
    /\ written = <<>>
    /\ prevOut = [s \in Scripts |-> NoSnapshot]

Running == status = "running" /\ pc <= Len(Program(script))

Next_instr == Program(script)[pc]

(* A new process: python3 <script>, at the start of the session or once the
   previous process has exited with code 0 *)
CanStart == status \in {"idle", "done"} /\ run < MaxRuns

StartRun(s, i) ==
    /\ run' = run + 1
    /\ script' = s
    /\ inv' = i
    /\ status' = "running"
    /\ pc' = 1
    /\ exc' = "none"
    /\ exitcode' = -1
    /\ locals' = NoLocals
    /\ stdout' = <<>>
    /\ written' = <<>>
    /\ UNCHANGED <<suite, parser, checkout, fs, dirs, prevOut>>

(* An uncaught exception: traceback, exit code 1, nothing else runs *)
Crash(e) ==
    /\ status' = "crashed"
    /\ exc' = e
    /\ exitcode' = 1
    /\ UNCHANGED <<suite, parser, checkout, dirs, run, script, inv, pc, locals, stdout, written, prevOut>>

NewCanvasStep ==
    /\ Running
    /\ Next_instr.op = "new_canvas"
    /\ locals' = [locals EXCEPT ![Next_instr.var] = new_canvas(Next_instr.bg)]
    /\ pc' = pc + 1
    /\ UNCHANGED <<suite, parser, checkout, fs, dirs, run, script, inv, status, exc, exitcode,
                   stdout, written, prevOut>>

DrawStep ==
    /\ Running
    /\ Next_instr.op = "draw"
    /\ locals' = [locals EXCEPT ![Next_instr.var] = Draw(@, Next_instr.f)]
    /\ pc' = pc + 1
    /\ UNCHANGED <<suite, parser, checkout, fs, dirs, run, script, inv, status, exc, exitcode,
                   stdout, written, prevOut>>

ResizeStep ==
    /\ Running
    /\ Next_instr.op = "resize"
    /\ locals' = [locals EXCEPT ![Next_instr.var] =
                      Resize(locals[Next_instr.src], <<OUTPUT, OUTPUT>>, "LANCZOS")]
    /\ pc' = pc + 1
    /\ UNCHANGED <<suite, parser, checkout, fs, dirs, run, script, inv, status, exc, exitcode,
                   stdout, written, prevOut>>

(* The file opened for exclusive creation: an existing file is an error *)
WriteFile_Exclusive(path, file) ==
    IF path \in DOMAIN fs
    THEN /\ status' = "crashed"
         /\ exc' = "FileExistsError"
         /\ exitcode' = 1
         /\ UNCHANGED <<suite, parser, checkout, fs, dirs, run, script, inv, pc, locals, stdout,
                        written, prevOut>>
    ELSE /\ fs' = [p \in (DOMAIN fs) \cup {path} |-> IF p = path THEN file ELSE fs[p]]
         /\ written' = Append(written, path)
         /\ pc' = pc + 1
         /\ UNCHANGED <<suite, parser, checkout, dirs, run, script, inv, status, exc, exitcode,
                        locals, stdout, prevOut>>

(* open(path, 'w') or Image.save(path): the file is created or replaced;   *)
(* the directory has to exist.                                              *)
WriteFile(path, file) ==
    IF dirname(path) \in dirs
    THEN /\ fs' = PutFile(path, file)
         /\ written' = Append(written, path)
         /\ pc' = pc + 1
         /\ UNCHANGED <<suite, parser, checkout, dirs, run, script, inv, status, exc, exitcode,
                        locals, stdout, prevOut>>
    ELSE /\ Crash("FileNotFoundError")
         /\ UNCHANGED fs

SaveStep ==
    /\ Running
    /\ Next_instr.op = "save"
    /\ WriteFile(join(OUTPUT_DIR, Next_instr.name), PngFile(locals[Next_instr.src]))

WriteSvgStep ==
    /\ Running
    /\ Next_instr.op = "write_svg"
    /\ WriteFile(join(OUTPUT_DIR, Next_instr.name), SvgFile(Next_instr.f))

(* print(...); the last statement of a function also ends its frame *)
PrintStep ==
    /\ Running
    /\ Next_instr.op \in {"print", "print_dir"}
    /\ stdout' = Append(stdout,
                   [text |-> Next_instr.text,
                    dir |-> IF Next_instr.op = "print_dir" THEN OUTPUT_DIR ELSE <<>>])
    /\ locals' = IF Next_instr.ret THEN NoLocals ELSE locals
    /\ pc' = pc + 1
    /\ UNCHANGED <<suite, parser, checkout, fs, dirs, run, script, inv, status, exc, exitcode,
                   written, prevOut>>

(* os.makedirs(OUTPUT_DIR, exist_ok=True) *)
MakeDirsStep ==
    /\ Running
    /\ Next_instr.op = "makedirs"
    /\ dirs' = dirs \cup Prefixes(OUTPUT_DIR)
    /\ pc' = pc + 1
    /\ UNCHANGED <<suite, parser, checkout, fs, run, script, inv, status, exc, exitcode,
                   locals, stdout, written, prevOut>>

(* The exception caught and ignored: the script goes on with the next     *)
(* statement.                                                               *)
Raise_Continue ==
    /\ status = "running" /\ pc <= Len(Program(script))
    /\ pc' = pc + 1
    /\ UNCHANGED <<suite, parser, checkout, fs, dirs, run, script, inv, status, exc, exitcode,
                   locals, stdout, written, prevOut>>

(* Any statement may fail for a reason outside the script (memory, disk,   *)
(* permissions, output encoding); no script has a try statement.            *)
Raise ==
    /\ Running
    /\ Crash("fault")
    /\ UNCHANGED fs

(* A write that fails after the file was opened leaves it truncated *)
RaiseDuringWrite ==
    /\ Running
    /\ Next_instr.op \in {"save", "write_svg"}
    /\ dirname(join(OUTPUT_DIR, Next_instr.name)) \in dirs
    /\ fs' = PutFile(join(OUTPUT_DIR, Next_instr.name), PartialFile)
    /\ Crash("fault")

Snapshot == [done |-> TRUE, run |-> run, inv |-> inv,
             files |-> [p \in Range(written) |-> Content(fs[p])]]

(* The end of the __main__ block: exit code 0 *)
Exit ==
    /\ status = "running"
    /\ pc = Len(Program(script)) + 1
    /\ status' = "done"
    /\ exitcode' = 0
    /\ prevOut' = IF prevOut[script].done THEN prevOut
                  ELSE [prevOut EXCEPT ![script] = Snapshot]
    /\ UNCHANGED <<suite, parser, checkout, fs, dirs, run, script, inv, pc, exc, locals, stdout, written>>

Next ==
    \/ CanStart /\ \E s \in Scripts : \E i \in Invocations(s) : StartRun(s, i)
    \/ NewCanvasStep
    \/ DrawStep
    \/ ResizeStep
    \/ SaveStep
    \/ WriteSvgStep
    \/ PrintStep
    \/ MakeDirsStep
    \/ Raise
    \/ RaiseDuringWrite
    \/ Exit

Spec == Init /\ [][Next]_vars

(* One run of one script in a fresh checkout *)
NextRun ==
    \/ status = "idle" /\ \E s \in Scripts : \E i \in Invocations(s) : StartRun(s, i)
    \/ NewCanvasStep
    \/ DrawStep
    \/ ResizeStep
    \/ SaveStep
    \/ WriteSvgStep
    \/ PrintStep
    \/ MakeDirsStep
    \/ Raise
    \/ RaiseDuringWrite
    \/ Exit

SpecRun == Init /\ [][NextRun]_vars

----------------------------------------------------------------------------
(* What the test suites expect *)

VERSIONS ==
    << "v1_singularity", "v2_geodesic_convergence", "v3_spacetime_warp", "v4_tao_layers",
       "v5_broken_horizon", "v6_golden_spiral", "v7_lensing_rings", "v8_yuanchu_unity" >>

V2_VERSIONS ==
    << "v2a_gravitational_displacement", "v2b_schwarzschild_throat", "v2c_tao_emergence",
       "v2d_light_cone_diamond", "v2e_gravitational_deflection" >>

V1_VERSIONS ==
    << "v1_singularity", "v2_geodesic_convergence", "v3_spacetime_warp", "v4_tao_layers",
       "v5_broken_horizon", "v6_golden_spiral", "v7_lensing_rings", "v8_yuanchu_unity" >>

VARIANTS == << "_dark.png", "_transparent.png" >>

ALL_FILES == { VERSIONS[i] \o VARIANTS[j] : i \in DOMAIN VERSIONS, j \in DOMAIN VARIANTS }

V2_ALL_FILES == { V2_VERSIONS[i] \o VARIANTS[j] : i \in DOMAIN V2_VERSIONS, j \in DOMAIN VARIANTS }

(* LOGO_DIR = os.path.dirname(os.path.abspath(__file__)) of a test module   *)
LOGO_DIR == dirname(abspath([abs |-> TRUE, parts |-> join(LogoDir, "test_logos.py")], <<>>))

get_logo_path(filename) == join(LOGO_DIR, filename)

----------------------------------------------------------------------------
(* Vocabulary of the properties *)

PngScripts == {"generate_logos_png.py", "generate_logos_v2.py"}

OtherPng(s) == IF s = "generate_logos_png.py" THEN "generate_logos_v2.py" ELSE "generate_logos_png.py"

Versions(s) == IF s = "generate_logos_png.py" THEN VERSIONS ELSE V2_VERSIONS

ExpectedFiles(s) == IF s = "generate_logos_png.py" THEN ALL_FILES ELSE V2_ALL_FILES

ExpectedPaths(s) == LET d == LOGO_DIR IN { join(d, f) : f \in ExpectedFiles(s) }

DarkNames_png == [i \in DOMAIN VERSIONS |-> VERSIONS[i] \o "_dark.png"]
TransNames_png == [i \in DOMAIN VERSIONS |-> VERSIONS[i] \o "_transparent.png"]
DarkNames_v2 == [i \in DOMAIN V2_VERSIONS |-> V2_VERSIONS[i] \o "_dark.png"]
TransNames_v2 == [i \in DOMAIN V2_VERSIONS |-> V2_VERSIONS[i] \o "_transparent.png"]

DarkNames(s) == IF s = "generate_logos_png.py" THEN DarkNames_png ELSE DarkNames_v2
TransNames(s) == IF s = "generate_logos_png.py" THEN TransNames_png ELSE TransNames_v2

(* Designs in the order of __main__, the dark variant before the transparent *)
OrderNames_png ==
    [k \in 1..(2 * Len(VERSIONS)) |->
        IF k % 2 = 1 THEN DarkNames_png[(k + 1) \div 2] ELSE TransNames_png[k \div 2]]
OrderNames_v2 ==
    [k \in 1..(2 * Len(V2_VERSIONS)) |->
        IF k % 2 = 1 THEN DarkNames_v2[(k + 1) \div 2] ELSE TransNames_v2[k \div 2]]

ExpectedOrder(s) ==
    LET d == LOGO_DIR
        names == IF s = "generate_logos_png.py" THEN OrderNames_png ELSE OrderNames_v2
    IN  [k \in DOMAIN names |-> join(d, names[k])]

IsPrefix(a, b) == Len(a) <= Len(b) /\ a = SubSeq(b, 1, Len(a))

(* The files on disk that the current process wrote or truncated *)
TouchedNow == { p \in DOMAIN fs : fs[p].mtime = run }

WrittenSet == Range(written)

SavedNow(p) == p \in WrittenSet /\ p \in DOMAIN fs /\ fs[p].complete /\ fs[p].mtime = run

BaseName(p) == p[Len(p)]

NumDark == Cardinality({i \in DOMAIN written : BaseName(written[i]) \in Range(DarkNames(script))})

NumTrans == Cardinality({i \in DOMAIN written : BaseName(written[i]) \in Range(TransNames(script))})

HasDone == \E i \in DOMAIN stdout : stdout[i].text \in {DonePng, DoneV2, DoneSvg}

(* C1: a run of generate_logos_png.py (generate_logos_v2.py) that reaches  *)
(* the end of __main__ has written exactly the 16 (10) files of the test   *)
(* suite's ALL_FILES, each of them once and completely, and no other file. *)
C1_ExactFiles ==
    (status = "done" /\ script \in PngScripts) =>
        LET expected == ExpectedPaths(script)
        IN  /\ WrittenSet = expected
            /\ TouchedNow = expected
            /\ Len(written) = (IF script = "generate_logos_png.py" THEN 16 ELSE 10)
            /\ \A p \in expected : SavedNow(p)

C1_Witness ==
    /\ status = "done"
    /\ script \in PngScripts
    /\ \A s \in PngScripts : prevOut[s].done

C2_Inv ==
    script \in PngScripts =>
        /\ LET dir == LOGO_DIR
           IN  \A i \in DOMAIN Versions(script) :
                  LET d == join(dir, DarkNames(script)[i])
                      t == join(dir, TransNames(script)[i])
                  IN  (SavedNow(d) /\ SavedNow(t)) =>
                          /\ fs[d].ops = fs[t].ops
                          /\ Len(fs[d].ops) >= 2
                          /\ fs[d].ops[1].op # "resize"
                          /\ fs[d].mode = fs[t].mode
                          /\ fs[d].size = fs[t].size
                          /\ fs[d].bg = <<0, 0, 0, 255>>
                          /\ fs[t].bg = <<0, 0, 0, 0>>
        /\ locals["img_trans"].ops # <<>> =>
              /\ locals["img_dark"].ops = locals["img_trans"].ops
              /\ locals["img_dark"].bg = <<0, 0, 0, 255>>
              /\ locals["img_trans"].bg = <<0, 0, 0, 0>>

C2_Step ==
    (run' = run /\ locals'["img_trans"] # locals["img_trans"] /\ locals'["img_trans"] # NoImage) =>
        /\ locals'["img_dark"] = locals["img_dark"]
        /\ locals'["dark"] = locals["dark"]
        /\ fs' = fs

(* C2: the dark and the transparent file of a design hold the same drawing *)
(* operations on canvases that differ only in the background, opaque black *)
(* against fully transparent, and no step that works on the transparent    *)
(* canvas changes the dark canvas, the dark image or any file.             *)
C2_SameDrawing == [](C2_Inv) /\ [][C2_Step]_vars

C2_Witness ==
    /\ script \in PngScripts
    /\ \E i \in DOMAIN Versions(script) :
          /\ SavedNow(join(LOGO_DIR, DarkNames(script)[i]))
          /\ SavedNow(join(LOGO_DIR, TransNames(script)[i]))
          /\ Len(fs[join(LOGO_DIR, TransNames(script)[i])].ops) > 2

(* C3: every PNG file on disk is RGBA, 512x512, and is the result of one   *)
(* resize of a 2048x2048 canvas (4 times the output size) to 512x512.      *)
C3_Png512 ==
    /\ CANVAS = 4 * OUTPUT
    /\ \A p \in DOMAIN fs :
          fs[p].fmt = "PNG" =>
              /\ fs[p].mode = "RGBA"
              /\ fs[p].size = <<512, 512>>
              /\ fs[p].ops # <<>>
              /\ LET last == fs[p].ops[Len(fs[p].ops)]
                 IN  /\ last.op = "resize"
                     /\ last.pts.xy = << <<2048, 2048>>, <<512, 512>> >>
              /\ Cardinality({i \in DOMAIN fs[p].ops : fs[p].ops[i].op = "resize"}) = 1

C3_Witness ==
    \E p \in DOMAIN fs : fs[p].fmt = "PNG" /\ fs[p].complete /\ Len(fs[p].ops) > 2

C4_Inv ==
    (status = "crashed" /\ script \in PngScripts) =>
        /\ Program(script)[pc].op \in {"new_canvas", "draw", "resize", "save"} => ~HasDone
        /\ IsPrefix(written, ExpectedOrder(script))
        /\ \A p \in WrittenSet : SavedNow(p)
        /\ NumDark - NumTrans \in {0, 1}

C4_Step ==
    /\ (status = "crashed" /\ run' = run) =>
          UNCHANGED <<fs, dirs, written, stdout, status, pc, exitcode>>
    /\ (status = "running" /\ status' = "crashed") =>
          /\ exitcode' = 1
          /\ UNCHANGED <<written, stdout, pc, dirs>>
          /\ \A p \in DOMAIN fs : p \in DOMAIN fs'
          /\ \A p \in DOMAIN fs' : (p \in DOMAIN fs /\ fs'[p] = fs[p]) \/ ~fs'[p].complete

(* C4: a run that raises stops there: it exits with code 1, writes no      *)
(* further file, prints nothing further, retries nothing and leaves the    *)
(* files it wrote in place; the files written are a prefix of the fixed    *)
(* order, so at most one design has its dark file without its transparent  *)
(* file, and a failing draw, resize or save comes before the completion    *)
(* line.                                                                   *)
C4_HardStop == [](C4_Inv) /\ [][C4_Step]_vars

C4_Witness ==
    /\ status = "crashed"
    /\ script \in PngScripts
    /\ Program(script)[pc].op = "draw"
    /\ NumDark = NumTrans + 1
    /\ NumTrans >= 1

C5_Inv ==
    script \in PngScripts =>
        /\ IsPrefix(written, ExpectedOrder(script))
        /\ Cardinality(WrittenSet) = Len(written)
        /\ NumTrans \in {NumDark, NumDark - 1}

C5_Step ==
    run' = run =>
        \/ written' = written
        \/ /\ Len(written') = Len(written) + 1
           /\ SubSeq(written', 1, Len(written)) = written

(* C5: the files are written one per step in the order of __main__, dark   *)
(* before transparent, no path twice, and the number of transparent files  *)
(* written is the number of dark files written or one less.                *)
C5_FixedOrder == [](C5_Inv) /\ [][C5_Step]_vars

C5_Witness ==
    /\ script \in PngScripts
    /\ Len(written) = 3
    /\ NumTrans = NumDark - 1

(* C6: once the completion line is printed all 16 (10) files are written,  *)
(* and a run that exited with code 0 has printed it.                       *)
C6_DoneLast ==
    script \in PngScripts =>
        /\ HasDone => \A p \in ExpectedPaths(script) : SavedNow(p)
        /\ exitcode = 0 => HasDone

C6_Witness ==
    /\ script \in PngScripts
    /\ exitcode = 0
    /\ HasDone

(* C7: a PNG generator never fails because of what is on disk (only a      *)
(* fault from outside ends a run early), and a run completed after an      *)
(* earlier completed run of the same script has rewritten the same paths   *)
(* with the same contents.                                                 *)
C7_Repeatable ==
    script \in PngScripts =>
        /\ status = "crashed" => exc = "fault"
        /\ (status = "done" /\ prevOut[script].done) =>
              /\ \A p \in WrittenSet : SavedNow(p)
              /\ [p \in WrittenSet |-> Content(fs[p])] = prevOut[script].files

C7_Witness ==
    /\ script \in PngScripts
    /\ status = "done"
    /\ prevOut[script].done
    /\ prevOut[script].run < run

IsFileOf(p, s) == BaseName(p) \in ExpectedFiles(s) /\ dirname(p) = LOGO_DIR

C8_Inv ==
    script \in PngScripts =>
        \A p \in WrittenSet \cup TouchedNow : ~IsFileOf(p, OtherPng(script))

C8_Step ==
    (run' = run /\ script \in PngScripts /\ fs' # fs) =>
        \A p \in (DOMAIN fs) \cup (DOMAIN fs') :
            IsFileOf(p, OtherPng(script)) =>
                /\ p \in DOMAIN fs
                /\ p \in DOMAIN fs'
                /\ fs'[p] = fs[p]

(* C8: the two PNG generators write disjoint sets of names, and no step of *)
(* one of them creates, replaces or removes a file of the other.           *)
C8_Disjoint == [](C8_Inv) /\ [][C8_Step]_vars

C8_Witness ==
    /\ script = "generate_logos_v2.py"
    /\ written # <<>>
    /\ \E p \in DOMAIN fs :
          IsFileOf(p, "generate_logos_png.py") /\ fs[p].complete /\ fs[p].mtime < run

InitDirs == Prefixes(LogoDir) \cup {<<"tmp">>}

(* C9: no generator script creates or changes a file or a directory        *)
(* outside the logo directory that holds the scripts, wherever the         *)
(* repository is checked out.                                              *)
C9_OnlyLogoDir ==
    /\ \A p \in DOMAIN fs : IsUnder(p, LogoDir)
    /\ \A d \in dirs : d \in InitDirs \/ IsUnder(d, LogoDir)

(* C10: the paths a script writes do not depend on the working directory,  *)
(* the arguments or the environment of the run: every run writes only      *)
(* paths that the first completed run of the same script wrote, and a      *)
(* completed run writes all of them.                                       *)
C10_FixedPaths ==
    (script \in Scripts /\ prevOut[script].done) =>
        /\ WrittenSet \subseteq DOMAIN prevOut[script].files
        /\ TouchedNow \subseteq DOMAIN prevOut[script].files
        /\ status = "done" => WrittenSet = DOMAIN prevOut[script].files

C10_Witness ==
    /\ script \in Scripts
    /\ status = "done"
    /\ prevOut[script].done
    /\ prevOut[script].run < run
    /\ prevOut[script].inv.cwd # inv.cwd
    /\ prevOut[script].inv.argv # inv.argv
    /\ prevOut[script].inv.env # inv.env
    /\ written # <<>>

----------------------------------------------------------------------------
(* generate_logos.py: the SVG files *)

SvgNames ==
    << "v1-primordial-blackhole.svg", "v2-schwarzschild.svg", "v3-tao-one.svg",
       "v4-tao-two.svg", "v5-tao-three.svg", "v6-tao-universe.svg",
       "v7-riemann-geometry.svg", "v8-primordial-singularity.svg",
       "v9-accretion-disk.svg", "v10-tao-blackhole.svg" >>

SvgFuncs ==
    << "create_primordial_blackhole", "create_schwarzschild", "create_tao_one",
       "create_tao_two", "create_tao_three", "create_tao_all", "create_riemann",
       "create_primordial_singularity", "create_accretion_disk",
       "create_tao_blackhole" >>

SvgOrder == [k \in DOMAIN SvgNames |-> join(HardcodedDir, SvgNames[k])]

HasDoneSvg == \E i \in DOMAIN stdout : stdout[i].text = DoneSvg

(* C11: a run of generate_logos.py writes the SVG files in the order its   *)
(* design functions are called, the k-th file being the one written by the *)
(* k-th function and no name being used twice; the completion line is      *)
(* printed only after all 10 are saved, and a completed run has written    *)
(* exactly those 10 files.                                                 *)
C11_TenSvg ==
    script = "generate_logos.py" =>
        /\ IsPrefix(written, SvgOrder)
        /\ Cardinality(WrittenSet) = Len(written)
        /\ \A k \in DOMAIN written :
              fs[written[k]].complete /\ fs[written[k]].mtime = run =>
                  /\ fs[written[k]].fmt = "SVG"
                  /\ fs[written[k]].body = SvgFuncs[k]
        /\ HasDoneSvg =>
              /\ Len(written) = 10
              /\ \A p \in WrittenSet : SavedNow(p)
        /\ status = "done" =>
              /\ HasDoneSvg
              /\ Len(written) = 10
              /\ TouchedNow = Range(SvgOrder)

C11_Witness ==
    /\ script = "generate_logos.py"
    /\ status = "done"
    /\ HasDoneSvg
    /\ Len(written) = 10
    /\ \A p \in Range(SvgOrder) : SavedNow(p)

----------------------------------------------------------------------------
(* Where the drawing calls paint.  A box <<x0, y0, x1, y1>> holds every     *)
(* point of a polyline; it is computed from the radii and ranges of the     *)
(* loop that builds the points, with |cos| <= 1 and |sin| <= 1, and rounded *)
(* outwards to whole pixels.                                                *)

Pad(b, w) == <<b[1] - w, b[2] - w, b[3] + w, b[4] + w>>

(* r runs from r_outer = CANVAS * 0.47 down to r_inner = 40 *)
v2_geodesic_convergence_box == BBox(CENTER, CENTER, (CANVAS * 47) \div 100 + 1)

(* base and the running coordinate stay in [margin, margin + usable]; the   *)
(* warp moves a point towards the centre by at most warp_strength           *)
v3_spacetime_warp_box ==
    LET margin == CANVAS * 12
        usable == CANVAS * 100 - 2 * margin
        warp_strength == 220
    IN  BBox(CENTER, CENTER, Max(usable \div 200 + 1, warp_strength))

(* r <= max_r = CANVAS * 0.44 *)
v6_golden_spiral_box == BBox(CENTER, CENTER, (CANVAS * 44) \div 100 + 1)

(* ecc = 1 + 0.5 * (1 - (layer + 1) / 5) = (14 - layer) / 10 >= 1, so       *)
(* ry <= rx and the rotated ellipse stays within rx of the centre           *)
v7_lensing_rings_box(layer) ==
    LET base_r == 160 + layer * 100
    IN  BBox(CENTER, CENTER, (base_r * (14 - layer)) \div 10 + 1)

(* r = CANVAS * 0.46 * (1 - frac * 0.8) <= CANVAS * 0.46 *)
v8_yuanchu_unity_box == BBox(CENTER, CENTER, (CANVAS * 46) \div 100 + 1)

(* x_offset = int(2.4 * sqrt(rs * (r - rs))) with rs = 81.92 and            *)
(* r - rs <= 696.32; y = CENTER + int(r_max * 0.6 - (r - rs) * 1.1)         *)
v2b_schwarzschild_throat_box ==
    LET x_offset == ISqrt(576 * 82 * 697, 100) + 1
    IN  << CENTER - x_offset, CENTER + ((CANVAS * (228 - 374)) \div 1000),
           CENTER + x_offset, CENTER + ((CANVAS * 228) \div 1000) + 1 >>

(* "one" climbs from the dot at angles -90..-78 degrees with r <= 520: it   *)
(* stays above the dot and goes right by at most 520 * sin(12 deg) <=       *)
(* 520 * 12 * pi / 180 < 110; each "two" starts at its end and stays        *)
(* within 320 of it; each "three" starts at the end of a "two" and stays    *)
(* within 220 of it                                                         *)
v2c_tao_emergence_box(part) ==
    LET origin_y == CENTER + 200
        right == (520 * 12 * 315) \div (180 * 100) + 1
        reach == CASE part = "one" -> 0
                   [] part = "two" -> 320
                   [] OTHER -> 320 + 220
    IN  <<CENTER - reach, origin_y - 520 - reach, CENTER + right + reach, origin_y + reach>>

(* the vertices are at distance r from the centre *)
v2d_light_cone_diamond_box(r) == BBox(CENTER, CENTER, r + 1)

(* y runs over CENTER - y_range .. CENTER + y_range; dx pulls x towards     *)
(* CENTER by at most strength / sqrt(|x0_off|) < |x0_off|                   *)
v2e_gravitational_deflection_box(x0_off) ==
    LET y_range == 750
    IN  <<CENTER - Abs(x0_off) - 1, CENTER - y_range, CENTER + Abs(x0_off) + 1, CENTER + y_range>>

CurveBox(c) ==
    CASE c.design = "v2_geodesic_convergence" -> v2_geodesic_convergence_box
      [] c.design = "v3_spacetime_warp" -> v3_spacetime_warp_box
      [] c.design = "v6_golden_spiral" -> v6_golden_spiral_box
      [] c.design = "v7_lensing_rings" -> v7_lensing_rings_box(c.i)
      [] c.design = "v8_yuanchu_unity" -> v8_yuanchu_unity_box
      [] c.design = "v2b_schwarzschild_throat" -> v2b_schwarzschild_throat_box
      [] c.design = "v2c_tao_emergence" -> v2c_tao_emergence_box(c.part)
      [] c.design = "v2d_light_cone_diamond" -> v2d_light_cone_diamond_box(c.i)
      [] c.design = "v2e_gravitational_deflection" -> v2e_gravitational_deflection_box(c.i)

SetMin(S) == CHOOSE x \in S : \A y \in S : x <= y
SetMax(S) == CHOOSE x \in S : \A y \in S : x >= y

XYBox(xy) ==
    << SetMin({xy[i][1] : i \in DOMAIN xy}), SetMin({xy[i][2] : i \in DOMAIN xy}),
       SetMax({xy[i][1] : i \in DOMAIN xy}), SetMax({xy[i][2] : i \in DOMAIN xy}) >>

EmptyBox == <<0, 0, -1, -1>>

(* The pixels a drawing call may change: ellipse and arc paint inside their *)
(* bounding box, a line of width w within w of its points.                  *)
Extent(op) ==
    CASE op.op \in {"ellipse", "arc"} -> op.bbox
      [] op.op = "line" ->
            Pad(IF op.pts.xy # <<>> THEN XYBox(op.pts.xy) ELSE CurveBox(op.pts.curve),
                op.width)
      [] OTHER -> EmptyBox

(* Image.LANCZOS has a support of 3 output pixels on either side *)
LanczosSupport == 3

(* The rows (columns) [lo, hi) of the source that output row (column) k of  *)
(* img.resize((to, to), Image.LANCZOS) is computed from, for from >= to:    *)
(* centre = (k + 0.5) * scale, reaching support * scale on either side.     *)
ResizeWindow(k, from, to) ==
    LET scale == from \div to
        centre2 == (2 * k + 1) * scale
        support2 == 2 * LanczosSupport * scale
    IN  [lo |-> Max(0, (centre2 - support2 + 1) \div 2),
         hi |-> Min(from, (centre2 + support2 + 1) \div 2)]

Touches(box, wx, wy) ==
    /\ box[1] < wx.hi /\ box[3] >= wx.lo
    /\ box[2] < wy.hi /\ box[4] >= wy.lo

(* A pixel that some drawing call may have changed *)
Painted == <<-1, -1, -1, -1>>

(* img.getpixel((x, y)) of an image that was drawn on and then resized: the *)
(* background colour where no drawing call reaches the pixels it is         *)
(* resampled from.                                                          *)
getpixel(img, x, y) ==
    LET n == Len(img.ops)
        sizes == img.ops[n].pts.xy
        wx == ResizeWindow(x, sizes[1][1], sizes[2][1])
        wy == ResizeWindow(y, sizes[1][2], sizes[2][2])
    IN  IF \E i \in 1..(n - 1) : Touches(Extent(img.ops[i]), wx, wy)
        THEN Painted
        ELSE img.bg

Corners == { <<0, 0>>, <<OUTPUT - 1, 0>>, <<0, OUTPUT - 1>>, <<OUTPUT - 1, OUTPUT - 1>> }

AllDark == Range(DarkNames_png) \cup Range(DarkNames_v2)
AllTrans == Range(TransNames_png) \cup Range(TransNames_v2)

(* C12: in every PNG file saved, each of the four corner pixels has the     *)
(* colour the canvas was created with, no drawing call of the design        *)
(* reaching it: (0, 0, 0) in a dark variant, alpha 0 in a transparent one.  *)
C12_Corners ==
    \A p \in DOMAIN fs :
        (fs[p].fmt = "PNG" /\ fs[p].complete) =>
            \A c \in Corners :
                LET corner == getpixel(fs[p], c[1], c[2])
                IN  /\ corner = fs[p].bg
                    /\ BaseName(p) \in AllDark => SubSeq(corner, 1, 3) = <<0, 0, 0>>
                    /\ BaseName(p) \in AllTrans => corner[4] = 0

C12_Witness ==
    /\ script = "generate_logos_v2.py"
    /\ status = "done"
    /\ \A p \in ExpectedPaths(script) :
          /\ p \in DOMAIN fs /\ fs[p].fmt = "PNG" /\ fs[p].complete
          /\ \A c \in Corners : getpixel(fs[p], c[1], c[2]) = fs[p].bg

----------------------------------------------------------------------------
(* The page tests (tests/test_myths_pages.py).  A page is kept as the       *)
(* pieces of text the tests look for; titles and labels are written in      *)
(* Latin letters: "previous:" and "next:" are the footer labels, "back to   *)
(* index" the label of the home link, "yuanchu" the site name.              *)

STORY_PAGES ==
    << [name |-> "pangu", file |-> "pangu.html"],
       [name |-> "nvwa", file |-> "nvwa.html"],
       [name |-> "youchao", file |-> "youchao.html"],
       [name |-> "suiren", file |-> "suiren.html"],
       [name |-> "fuxi", file |-> "fuxi.html"],
       [name |-> "shennong", file |-> "shennong.html"],
       [name |-> "xuanyuan", file |-> "xuanyuan.html"],
       [name |-> "qinchiyou", file |-> "qinchiyou.html"],
       [name |-> "fenghou", file |-> "fenghou.html"],
       [name |-> "xuannv", file |-> "xuannv.html"],
       [name |-> "changxian", file |-> "changxian.html"],
       [name |-> "hanba", file |-> "hanba.html"],
       [name |-> "xingtian", file |-> "xingtian.html"] >>

expected_order ==
    << "Pangu Kai Tiandi",
       "Nvwa Zao Ren",
       "Youchao Gou Mu",
       "Suiren Qu Huo",
       "Fuxi Hua Gua",
       "Shennong Chang Baicao",
       "Xuanyuan Huangdi",
       "Huangdi Qin Chiyou",
       "Fenghou Zhinan",
       "Xuannv Ci Shu",
       "Changxian Zhi Gu",
       "Hanshen Nvba",
       "Xingtian Duan Shou" >>

(* expected_links with two stories sent to the same file *)
expected_links_Dup ==
    << [story |-> "Pangu Kai Tiandi", expected_href |-> "pangu.html"],
       [story |-> "Nvwa Zao Ren", expected_href |-> "pangu.html"],
       [story |-> "Youchao Gou Mu", expected_href |-> "youchao.html"],
       [story |-> "Suiren Qu Huo", expected_href |-> "suiren.html"],
       [story |-> "Fuxi Hua Gua", expected_href |-> "fuxi.html"],
       [story |-> "Shennong Chang Baicao", expected_href |-> "shennong.html"],
       [story |-> "Xuanyuan Huangdi", expected_href |-> "xuanyuan.html"],
       [story |-> "Huangdi Qin Chiyou", expected_href |-> "qinchiyou.html"],
       [story |-> "Fenghou Zhinan", expected_href |-> "fenghou.html"],
       [story |-> "Xuannv Ci Shu", expected_href |-> "xuannv.html"],
       [story |-> "Changxian Zhi Gu", expected_href |-> "changxian.html"],
       [story |-> "Hanshen Nvba", expected_href |-> "hanba.html"],
       [story |-> "Xingtian Duan Shou", expected_href |-> "xingtian.html"] >>

expected_links ==
    << [story |-> "Pangu Kai Tiandi", expected_href |-> "pangu.html"],
       [story |-> "Nvwa Zao Ren", expected_href |-> "nvwa.html"],
       [story |-> "Youchao Gou Mu", expected_href |-> "youchao.html"],
       [story |-> "Suiren Qu Huo", expected_href |-> "suiren.html"],
       [story |-> "Fuxi Hua Gua", expected_href |-> "fuxi.html"],
       [story |-> "Shennong Chang Baicao", expected_href |-> "shennong.html"],
       [story |-> "Xuanyuan Huangdi", expected_href |-> "xuanyuan.html"],
       [story |-> "Huangdi Qin Chiyou", expected_href |-> "qinchiyou.html"],
       [story |-> "Fenghou Zhinan", expected_href |-> "fenghou.html"],
       [story |-> "Xuannv Ci Shu", expected_href |-> "xuannv.html"],
       [story |-> "Changxian Zhi Gu", expected_href |-> "changxian.html"],
       [story |-> "Hanshen Nvba", expected_href |-> "hanba.html"],
       [story |-> "Xingtian Duan Shou", expected_href |-> "xingtian.html"] >>

expected_files ==
    << "pangu.html",
       "nvwa.html",
       "youchao.html",
       "suiren.html",
       "fuxi.html",
       "shennong.html",
       "xuanyuan.html",
       "qinchiyou.html",
       "fenghou.html",
       "xuannv.html",
       "changxian.html",
       "hanba.html",
       "xingtian.html" >>

(* NavTests with the next page expected of nvwa being suiren *)
NavTests_Skip ==
    << [test |-> "test_pangu_nav_no_previous", page |-> "pangu", dir |-> "previous", kind |-> "lacks",
        label |-> "previous:", href |-> "", title |-> ""],
       [test |-> "test_pangu_nav_next_is_nvwa", page |-> "pangu", dir |-> "next", kind |-> "has",
        label |-> "", href |-> "nvwa.html", title |-> "Nvwa Zao Ren"],
       [test |-> "test_nvwa_nav_previous_is_pangu", page |-> "nvwa", dir |-> "previous", kind |-> "has",
        label |-> "", href |-> "pangu.html", title |-> "Pangu Kai Tiandi"],
       [test |-> "test_nvwa_nav_next_is_youchao", page |-> "nvwa", dir |-> "next", kind |-> "has",
        label |-> "", href |-> "suiren.html", title |-> "Youchao Gou Mu"],
       [test |-> "test_youchao_nav_previous_is_nvwa", page |-> "youchao", dir |-> "previous", kind |-> "has",
        label |-> "", href |-> "nvwa.html", title |-> "Nvwa Zao Ren"],
       [test |-> "test_youchao_nav_next_is_suiren", page |-> "youchao", dir |-> "next", kind |-> "has",
        label |-> "", href |-> "suiren.html", title |-> "Suiren Qu Huo"],
       [test |-> "test_suiren_nav_previous_is_youchao", page |-> "suiren", dir |-> "previous", kind |-> "has",
        label |-> "", href |-> "youchao.html", title |-> "Youchao Gou Mu"],
       [test |-> "test_suiren_nav_next_is_fuxi", page |-> "suiren", dir |-> "next", kind |-> "has",
        label |-> "", href |-> "fuxi.html", title |-> "Fuxi Hua Gua"],
       [test |-> "test_fuxi_nav_previous_is_suiren", page |-> "fuxi", dir |-> "previous", kind |-> "has",
        label |-> "", href |-> "suiren.html", title |-> "Suiren Qu Huo"],
       [test |-> "test_fuxi_nav_next_is_shennong", page |-> "fuxi", dir |-> "next", kind |-> "has",
        label |-> "", href |-> "shennong.html", title |-> "Shennong Chang Baicao"],
       [test |-> "test_shennong_nav_previous_is_fuxi", page |-> "shennong", dir |-> "previous", kind |-> "has",
        label |-> "", href |-> "fuxi.html", title |-> "Fuxi Hua Gua"],
       [test |-> "test_shennong_nav_next_is_xuanyuan", page |-> "shennong", dir |-> "next", kind |-> "has",
        label |-> "", href |-> "xuanyuan.html", title |-> "Xuanyuan Huangdi"],
       [test |-> "test_xuanyuan_nav_previous_is_shennong", page |-> "xuanyuan", dir |-> "previous", kind |-> "has",
        label |-> "", href |-> "shennong.html", title |-> "Shennong Chang Baicao"],
       [test |-> "test_xuanyuan_nav_next_is_qinchiyou", page |-> "xuanyuan", dir |-> "next", kind |-> "has",
        label |-> "", href |-> "qinchiyou.html", title |-> "Huangdi Qin Chiyou"],
       [test |-> "test_qinchiyou_nav_previous_is_xuanyuan", page |-> "qinchiyou", dir |-> "previous", kind |-> "has",
        label |-> "", href |-> "xuanyuan.html", title |-> "Xuanyuan Huangdi"],
       [test |-> "test_qinchiyou_nav_next_is_fenghou", page |-> "qinchiyou", dir |-> "next", kind |-> "has",
        label |-> "", href |-> "fenghou.html", title |-> "Fenghou Zhinan"],
       [test |-> "test_fenghou_nav_previous_is_qinchiyou", page |-> "fenghou", dir |-> "previous", kind |-> "has",
        label |-> "", href |-> "qinchiyou.html", title |-> "Huangdi Qin Chiyou"],
       [test |-> "test_fenghou_nav_next_is_xuannv", page |-> "fenghou", dir |-> "next", kind |-> "has",
        label |-> "", href |-> "xuannv.html", title |-> "Xuannv Ci Shu"],
       [test |-> "test_xuannv_nav_previous_is_fenghou", page |-> "xuannv", dir |-> "previous", kind |-> "has",
        label |-> "", href |-> "fenghou.html", title |-> "Fenghou Zhinan"],
       [test |-> "test_xuannv_nav_next_is_changxian", page |-> "xuannv", dir |-> "next", kind |-> "has",
        label |-> "", href |-> "changxian.html", title |-> "Changxian Zhi Gu"],
       [test |-> "test_changxian_nav_previous_is_xuannv", page |-> "changxian", dir |-> "previous", kind |-> "has",
        label |-> "", href |-> "xuannv.html", title |-> "Xuannv Ci Shu"],
       [test |-> "test_changxian_nav_next_is_hanba", page |-> "changxian", dir |-> "next", kind |-> "has",
        label |-> "", href |-> "hanba.html", title |-> "Hanshen Nvba"],
       [test |-> "test_hanba_nav_previous_is_changxian", page |-> "hanba", dir |-> "previous", kind |-> "has",
        label |-> "", href |-> "changxian.html", title |-> "Changxian Zhi Gu"],
       [test |-> "test_hanba_nav_next_is_xingtian", page |-> "hanba", dir |-> "next", kind |-> "has",
        label |-> "", href |-> "xingtian.html", title |-> "Xingtian Duan Shou"],
       [test |-> "test_xingtian_nav_previous_is_hanba", page |-> "xingtian", dir |-> "previous", kind |-> "has",
        label |-> "", href |-> "hanba.html", title |-> "Hanshen Nvba"],
       [test |-> "test_xingtian_nav_no_next", page |-> "xingtian", dir |-> "next", kind |-> "lacks",
        label |-> "next:", href |-> "", title |-> ""] >>

NavTests ==
    << [test |-> "test_pangu_nav_no_previous", page |-> "pangu", dir |-> "previous", kind |-> "lacks",
        label |-> "previous:", href |-> "", title |-> ""],
       [test |-> "test_pangu_nav_next_is_nvwa", page |-> "pangu", dir |-> "next", kind |-> "has",
        label |-> "", href |-> "nvwa.html", title |-> "Nvwa Zao Ren"],
       [test |-> "test_nvwa_nav_previous_is_pangu", page |-> "nvwa", dir |-> "previous", kind |-> "has",
        label |-> "", href |-> "pangu.html", title |-> "Pangu Kai Tiandi"],
       [test |-> "test_nvwa_nav_next_is_youchao", page |-> "nvwa", dir |-> "next", kind |-> "has",
        label |-> "", href |-> "youchao.html", title |-> "Youchao Gou Mu"],
       [test |-> "test_youchao_nav_previous_is_nvwa", page |-> "youchao", dir |-> "previous", kind |-> "has",
        label |-> "", href |-> "nvwa.html", title |-> "Nvwa Zao Ren"],
       [test |-> "test_youchao_nav_next_is_suiren", page |-> "youchao", dir |-> "next", kind |-> "has",
        label |-> "", href |-> "suiren.html", title |-> "Suiren Qu Huo"],
       [test |-> "test_suiren_nav_previous_is_youchao", page |-> "suiren", dir |-> "previous", kind |-> "has",
        label |-> "", href |-> "youchao.html", title |-> "Youchao Gou Mu"],
       [test |-> "test_suiren_nav_next_is_fuxi", page |-> "suiren", dir |-> "next", kind |-> "has",
        label |-> "", href |-> "fuxi.html", title |-> "Fuxi Hua Gua"],
       [test |-> "test_fuxi_nav_previous_is_suiren", page |-> "fuxi", dir |-> "previous", kind |-> "has",
        label |-> "", href |-> "suiren.html", title |-> "Suiren Qu Huo"],
       [test |-> "test_fuxi_nav_next_is_shennong", page |-> "fuxi", dir |-> "next", kind |-> "has",
        label |-> "", href |-> "shennong.html", title |-> "Shennong Chang Baicao"],
       [test |-> "test_shennong_nav_previous_is_fuxi", page |-> "shennong", dir |-> "previous", kind |-> "has",
        label |-> "", href |-> "fuxi.html", title |-> "Fuxi Hua Gua"],
       [test |-> "test_shennong_nav_next_is_xuanyuan", page |-> "shennong", dir |-> "next", kind |-> "has",
        label |-> "", href |-> "xuanyuan.html", title |-> "Xuanyuan Huangdi"],
       [test |-> "test_xuanyuan_nav_previous_is_shennong", page |-> "xuanyuan", dir |-> "previous", kind |-> "has",
        label |-> "", href |-> "shennong.html", title |-> "Shennong Chang Baicao"],
       [test |-> "test_xuanyuan_nav_next_is_qinchiyou", page |-> "xuanyuan", dir |-> "next", kind |-> "has",
        label |-> "", href |-> "qinchiyou.html", title |-> "Huangdi Qin Chiyou"],
       [test |-> "test_qinchiyou_nav_previous_is_xuanyuan", page |-> "qinchiyou", dir |-> "previous", kind |-> "has",
        label |-> "", href |-> "xuanyuan.html", title |-> "Xuanyuan Huangdi"],
       [test |-> "test_qinchiyou_nav_next_is_fenghou", page |-> "qinchiyou", dir |-> "next", kind |-> "has",
        label |-> "", href |-> "fenghou.html", title |-> "Fenghou Zhinan"],
       [test |-> "test_fenghou_nav_previous_is_qinchiyou", page |-> "fenghou", dir |-> "previous", kind |-> "has",
        label |-> "", href |-> "qinchiyou.html", title |-> "Huangdi Qin Chiyou"],
       [test |-> "test_fenghou_nav_next_is_xuannv", page |-> "fenghou", dir |-> "next", kind |-> "has",
        label |-> "", href |-> "xuannv.html", title |-> "Xuannv Ci Shu"],
       [test |-> "test_xuannv_nav_previous_is_fenghou", page |-> "xuannv", dir |-> "previous", kind |-> "has",
        label |-> "", href |-> "fenghou.html", title |-> "Fenghou Zhinan"],
       [test |-> "test_xuannv_nav_next_is_changxian", page |-> "xuannv", dir |-> "next", kind |-> "has",
        label |-> "", href |-> "changxian.html", title |-> "Changxian Zhi Gu"],
       [test |-> "test_changxian_nav_previous_is_xuannv", page |-> "changxian", dir |-> "previous", kind |-> "has",
        label |-> "", href |-> "xuannv.html", title |-> "Xuannv Ci Shu"],
       [test |-> "test_changxian_nav_next_is_hanba", page |-> "changxian", dir |-> "next", kind |-> "has",
        label |-> "", href |-> "hanba.html", title |-> "Hanshen Nvba"],
       [test |-> "test_hanba_nav_previous_is_changxian", page |-> "hanba", dir |-> "previous", kind |-> "has",
        label |-> "", href |-> "changxian.html", title |-> "Changxian Zhi Gu"],
       [test |-> "test_hanba_nav_next_is_xingtian", page |-> "hanba", dir |-> "next", kind |-> "has",
        label |-> "", href |-> "xingtian.html", title |-> "Xingtian Duan Shou"],
       [test |-> "test_xingtian_nav_previous_is_hanba", page |-> "xingtian", dir |-> "previous", kind |-> "has",
        label |-> "", href |-> "hanba.html", title |-> "Hanshen Nvba"],
       [test |-> "test_xingtian_nav_no_next", page |-> "xingtian", dir |-> "next", kind |-> "lacks",
        label |-> "next:", href |-> "", title |-> ""] >>

expected_titles ==
    << [name |-> "pangu", expected |-> "Pangu Kai Tiandi"],
       [name |-> "nvwa", expected |-> "Nvwa Zao Ren"],
       [name |-> "youchao", expected |-> "Youchao Gou Mu"],
       [name |-> "suiren", expected |-> "Suiren Qu Huo"],
       [name |-> "fuxi", expected |-> "Fuxi Hua Gua"],
       [name |-> "shennong", expected |-> "Shennong Chang Baicao"],
       [name |-> "xuanyuan", expected |-> "Xuanyuan Huangdi"],
       [name |-> "qinchiyou", expected |-> "Huangdi Qin Chiyou"],
       [name |-> "fenghou", expected |-> "Fenghou Zhinan"],
       [name |-> "xuannv", expected |-> "Xuannv Ci Shu"],
       [name |-> "changxian", expected |-> "Changxian Zhi Gu"],
       [name |-> "hanba", expected |-> "Hanshen Nvba"],
       [name |-> "xingtian", expected |-> "Xingtian Duan Shou"] >>

(* A piece of a page: an <a href="..."> with its text, or plain text *)
Link(href, words) == [tag |-> "a", href |-> href, words |-> words]

Text(words) == [tag |-> "", href |-> "", words |-> words]

(* s in raw: the string s occurs in the text raw *)
In(s, raw) == \E i \in DOMAIN raw : raw[i].href = s \/ s \in Range(raw[i].words)

PageNumbers == DOMAIN STORY_PAGES

PageTitle(k) ==
    (CHOOSE e \in Range(expected_titles) : e.name = STORY_PAGES[k].name).expected

NavLink(label, k) == Link(STORY_PAGES[k].file, <<label, PageTitle(k)>>)

HomeLink == Link("yuanchu.ai/myths", <<"back to index">>)

(* A footer with a "previous" link to page a and a "next" link to page b;   *)
(* 0 stands for no such link.                                               *)
Footer(a, b) ==
    (IF a = 0 THEN <<>> ELSE <<NavLink("previous:", a)>>)
    \o <<HomeLink>>
    \o (IF b = 0 THEN <<>> ELSE <<NavLink("next:", b)>>)

(* The file names and titles of pages a and b as plain text, no link *)
LooseFooter(a, b) ==
    << Text(<<STORY_PAGES[a].file, PageTitle(a), STORY_PAGES[b].file, PageTitle(b)>>),
       HomeLink >>

(* The link to each page carries the title of the other *)
CrossedFooter(a, b) ==
    << Link(STORY_PAGES[a].file, <<"previous:", PageTitle(b)>>),
       HomeLink,
       Link(STORY_PAGES[b].file, <<"next:", PageTitle(a)>>) >>

Footers(k) ==
    { Footer(a, b) : a \in {0} \cup PageNumbers, b \in {0} \cup PageNumbers }
    \cup { <<>> }
    \cup (IF k - 1 \in PageNumbers /\ k + 1 \in PageNumbers
          THEN { LooseFooter(k - 1, k + 1), CrossedFooter(k - 1, k + 1) }
          ELSE {})

(* The footer the chain of the 13 stories asks for on page k *)
ChainFooter(k) ==
    Footer(IF k - 1 \in PageNumbers THEN k - 1 ELSE 0,
           IF k + 1 \in PageNumbers THEN k + 1 ELSE 0)

PageHead(has_doctype, html_lang, charset, viewport, title) ==
    [has_doctype |-> has_doctype, html_lang |-> html_lang, charset |-> charset,
     viewport |-> viewport, title |-> title]

NoPageHead == PageHead(FALSE, "", "", FALSE, <<>>)

PageHeads(title) ==
    { PageHead(TRUE, "zh-CN", "UTF-8", TRUE, <<title, "yuanchu">>),
      PageHead(TRUE, "zh-CN", "utf-8", TRUE, <<title, "yuanchu">>),
      NoPageHead }

(* A file of the myths directory *)
File(exists, head, has_footer, footer, items) ==
    [exists |-> exists, head |-> head, has_footer |-> has_footer, footer |-> footer,
     items |-> items]

MissingFile == File(FALSE, NoPageHead, FALSE, <<>>, <<>>)

(* '' *)
EmptyRaw == File(TRUE, NoPageHead, FALSE, <<>>, <<>>)

StoryFiles(k) ==
    { MissingFile }
    \cup { File(TRUE, h, FALSE, <<>>, <<>>) : h \in PageHeads(PageTitle(k)) }
    \cup { File(TRUE, PageHead(TRUE, "zh-CN", "UTF-8", TRUE, <<PageTitle(k), "yuanchu">>), TRUE, f, <<>>) :
             f \in Footers(k) }
    \cup { File(TRUE, h, TRUE, ChainFooter(k), <<>>) : h \in PageHeads(PageTitle(k)) }

(* The index page: one timeline item per story, each with an <h3> title    *)
(* inside a link to the story's page                                        *)
Item(title, href) == [title |-> title, href |-> href, item |-> TRUE]

(* a link of the index page outside the timeline, without a heading *)
PlainLink(href) == [title |-> "", href |-> href, item |-> FALSE]

h3_in_timeline(items) == SelectSeq(items, LAMBDA e : e.title # "")

timeline_items(items) == SelectSeq(items, LAMBDA e : e.item)

Timeline == [k \in PageNumbers |-> Item(PageTitle(k), STORY_PAGES[k].file)]

(* items k and k + 1 in each other's place *)
SwapItems(items, k) ==
    [i \in DOMAIN items |-> IF i = k THEN items[k + 1] ELSE IF i = k + 1 THEN items[k] ELSE items[i]]

(* items k and k + 1 with each other's link *)
SwapHrefs(items, k) ==
    [i \in DOMAIN items |->
        IF i = k THEN Item(items[k].title, items[k + 1].href)
        ELSE IF i = k + 1 THEN Item(items[k + 1].title, items[k].href)
        ELSE items[i]]

DropItem(items, k) == SubSeq(items, 1, k - 1) \o SubSeq(items, k + 1, Len(items))

DupItem(items, k) == SubSeq(items, 1, k) \o SubSeq(items, k, Len(items))

Timelines ==
    { Timeline, <<>> }
    \cup { SwapItems(Timeline, k) : k \in 1..(Len(Timeline) - 1) }
    \cup { SwapHrefs(Timeline, k) : k \in 1..(Len(Timeline) - 1) }
    \cup { DropItem(Timeline, k) : k \in DOMAIN Timeline }
    \cup { DupItem(Timeline, k) : k \in DOMAIN Timeline }
    \cup { [i \in PageNumbers |-> PlainLink(STORY_PAGES[i].file)] \o SwapHrefs(Timeline, k) :
             k \in 1..(Len(Timeline) - 1) }

IndexFiles ==
    { MissingFile }
    \cup { File(TRUE, PageHead(TRUE, "zh-CN", "UTF-8", TRUE, <<"myths", "yuanchu">>),
                TRUE, <<HomeLink>>, items) : items \in Timelines }

Verdict(ok) == IF ok THEN "pass" ELSE "fail"

(* raws.get(name, ''): raws holds the page under test if its file exists *)
raws_get(raws) == IF raws = <<>> THEN EmptyRaw ELSE raws[1]

(* re.search(r'<footer>(.*?)</footer>', raw, re.DOTALL), '' without match *)
get_footer_content(raw) == IF raw.has_footer THEN raw.footer ELSE <<>>

(* test_<page>_nav_previous_is_<p>, test_<page>_nav_next_is_<p>,            *)
(* test_pangu_nav_no_previous, test_xingtian_nav_no_next                    *)
test_nav(t, raws) ==
    LET footer == get_footer_content(raws_get(raws))
    IN  IF t.kind = "lacks"
        THEN Verdict(~In(t.label, footer))
        ELSE Verdict(In(t.href, footer) /\ In(t.title, footer))

test_all_pages_have_home_link(raws) ==
    LET footer == get_footer_content(raws_get(raws))
    IN  Verdict(In("back to index", footer) /\ In("yuanchu.ai/myths", footer))

upper(s) == IF s = "utf-8" THEN "UTF-8" ELSE s

(* TestHTMLStructure: each test loops over the pages in cls.parsers *)
test_structure(test, k, parsers) ==
    IF parsers = <<>> THEN "pass"
    ELSE LET p == parsers[1].head
         IN  CASE test = "test_all_pages_have_doctype" -> Verdict(p.has_doctype)
               [] test = "test_all_pages_have_zh_cn_lang" -> Verdict(p.html_lang = "zh-CN")
               [] test = "test_all_pages_have_utf8_charset" -> Verdict(upper(p.charset) = "UTF-8")
               [] test = "test_all_pages_have_viewport_meta" -> Verdict(p.viewport)
               [] test = "test_all_pages_have_title" -> Verdict(p.title # <<>>)
               [] test = "test_story_pages_title_format" ->
                     Verdict(/\ expected_titles[k].expected \in Range(p.title)
                             /\ "yuanchu" \in Range(p.title))

(* TestIndexTimeline and TestCrossPageConsistency on the index page *)
test_index(test, raws) ==
    LET items == raws_get(raws).items
    IN  CASE test = "test_timeline_has_13_items" -> Verdict(Len(timeline_items(items)) = 13)
          [] test = "test_timeline_story_order" ->
                Verdict(/\ Len(h3_in_timeline(items)) = 13
                        /\ \A i \in DOMAIN expected_order :
                              h3_in_timeline(items)[i].title = expected_order[i])
          [] test = "test_timeline_links_correct" ->
                Verdict(\A e \in Range(expected_links) :
                           \E i \in DOMAIN items : \E j \in DOMAIN items :
                               /\ i <= j
                               /\ items[i].href = e.expected_href
                               /\ items[j].title = e.story)
          [] test = "test_index_links_match_story_pages" ->
                Verdict(\A f \in Range(expected_files) : \E i \in DOMAIN items : items[i].href = f)

(* The test classes of test_myths_pages.py that read one page, and their    *)
(* tests about that page                                                    *)
PageClasses == {"TestNavigationChain", "TestHTMLStructure"}

IndexClasses == {"TestIndexTimeline", "TestCrossPageConsistency"}

StructureTests ==
    {"test_all_pages_have_doctype", "test_all_pages_have_zh_cn_lang",
     "test_all_pages_have_utf8_charset", "test_all_pages_have_viewport_meta",
     "test_all_pages_have_title", "test_story_pages_title_format"}

NavTestsOf(k) == { t \in Range(NavTests) : t.page = STORY_PAGES[k].name }

Tests(cls, k) ==
    CASE cls = "TestNavigationChain" ->
            { t.test : t \in NavTestsOf(k) } \cup {"test_all_pages_have_home_link"}
      [] cls = "TestHTMLStructure" -> StructureTests
      [] cls = "TestIndexTimeline" ->
            {"test_timeline_has_13_items", "test_timeline_story_order", "test_timeline_links_correct"}
      [] cls = "TestCrossPageConsistency" -> {"test_index_links_match_story_pages"}

Outcome(cls, test, k, raws) ==
    CASE cls = "TestNavigationChain" ->
            IF test = "test_all_pages_have_home_link"
            THEN test_all_pages_have_home_link(raws)
            ELSE test_nav(CHOOSE t \in NavTestsOf(k) : t.test = test, raws)
      [] cls = "TestHTMLStructure" -> test_structure(test, k, raws)
      [] cls \in IndexClasses -> test_index(test, raws)

NoResults == [t \in {} |-> ""]

(* the files a structure test can tell apart: the footer plays no part *)
StructureFiles(k) == { f \in StoryFiles(k) : f.has_footer => f.footer = ChainFooter(k) }

SuiteInputs ==
    UNION { { [cls |-> "TestNavigationChain", page |-> k, file |-> f] : f \in StoryFiles(k) } :
            k \in PageNumbers }
    \cup UNION { { [cls |-> "TestHTMLStructure", page |-> k, file |-> f] : f \in StructureFiles(k) } :
                 k \in PageNumbers }
    \cup { [cls |-> c, page |-> 0, file |-> f] : c \in IndexClasses, f \in IndexFiles }

(* no generator process: the logo scripts play no part in the page tests *)
NoProcess ==
    /\ checkout = <<"home", "ci", "yuanchu.ai">>
    /\ fs = [p \in {} |-> PartialFile]
    /\ dirs = Prefixes(join(checkout, "logo")) \cup {<<"tmp">>}
    /\ run = 0
    /\ script = ""
    /\ inv = NoInv
    /\ status = "idle"
    /\ pc = 0
    /\ exc = "none"
    /\ exitcode = -1
    /\ locals = NoLocals
    /\ stdout = <<>>
    /\ written = <<>>
    /\ prevOut = [s \in Scripts |-> NoSnapshot]

InitPages ==
    /\ NoProcess
    /\ parser = NoParser
    /\ \E i \in SuiteInputs :
          suite = [cls |-> i.cls, page |-> i.page, file |-> i.file,
                   setup |-> FALSE, raws |-> <<>>, results |-> NoResults]

(* setUpClass of the four classes: the page is read if its file exists *)
setUpClass ==
    /\ suite # NoSuite
    /\ ~suite.setup
    /\ suite' = [suite EXCEPT !.setup = TRUE,
                              !.raws = IF suite.file.exists THEN <<suite.file>> ELSE <<>>]
    /\ UNCHANGED <<parser, checkout, fs, dirs, run, script, inv, status, pc, exc, exitcode,
                   locals, stdout, written, prevOut>>

(* the runner runs one test of the class that has not run yet *)
RunTest ==
    /\ suite # NoSuite
    /\ suite.setup
    /\ \E t \in Tests(suite.cls, suite.page) \ DOMAIN suite.results :
          suite' = [suite EXCEPT !.results =
                       [x \in DOMAIN suite.results \cup {t} |->
                           IF x = t THEN Outcome(suite.cls, t, suite.page, suite.raws)
                           ELSE suite.results[x]]]
    /\ UNCHANGED <<parser, checkout, fs, dirs, run, script, inv, status, pc, exc, exitcode,
                   locals, stdout, written, prevOut>>

NextPages ==
    \/ setUpClass
    \/ RunTest

SpecPages == InitPages /\ [][NextPages]_vars

AllRun == suite # NoSuite /\ suite.setup /\ DOMAIN suite.results = Tests(suite.cls, suite.page)

AllPass == AllRun /\ \A t \in DOMAIN suite.results : suite.results[t] = "pass"

----------------------------------------------------------------------------
(* C13: the timeline expected of the index page has exactly 13 items, one   *)
(* per story page, in the order of STORY_PAGES (pangu ... xingtian); the    *)
(* i-th expected title is mapped to the file of the i-th page, and the      *)
(* expected title-to-file mapping is one-to-one and onto the 13 files of    *)
(* STORY_PAGES. The index page with exactly that timeline passes the        *)
(* timeline tests, and a page whose only links are its timeline items       *)
(* passes them only if it is that timeline.                                 *)
CanonicalOrder ==
    <<"pangu", "nvwa", "youchao", "suiren", "fuxi", "shennong", "xuanyuan",
      "qinchiyou", "fenghou", "xuannv", "changxian", "hanba", "xingtian">>

ExpectedFile(story) == (CHOOSE e \in Range(expected_links) : e.story = story).expected_href

C13_Expected ==
    /\ Len(expected_order) = 13
    /\ Len(STORY_PAGES) = 13
    /\ Len(expected_links) = 13
    /\ [k \in DOMAIN STORY_PAGES |-> STORY_PAGES[k].name] = CanonicalOrder
    /\ \A i \in DOMAIN expected_order : \A j \in DOMAIN expected_order :
          expected_order[i] = expected_order[j] => i = j
    /\ { e.story : e \in Range(expected_links) } = Range(expected_order)
    /\ \A i \in DOMAIN expected_order :
          /\ ExpectedFile(expected_order[i]) = STORY_PAGES[i].file
          /\ expected_files[i] = STORY_PAGES[i].file
    /\ \A d \in Range(expected_links) : \A e \in Range(expected_links) :
          d.expected_href = e.expected_href => d.story = e.story
    /\ { e.expected_href : e \in Range(expected_links) } = { q.file : q \in Range(STORY_PAGES) }

C13_Timeline ==
    /\ C13_Expected
    /\ (suite # NoSuite /\ suite.cls \in IndexClasses /\ AllRun) =>
          /\ (suite.file.exists /\ suite.file.items = Timeline) => AllPass
          /\ (suite.cls = "TestIndexTimeline" /\ AllPass
                 /\ \A e \in Range(suite.file.items) : e.item) =>
                suite.file.items = Timeline

C13_Witness ==
    /\ suite # NoSuite
    /\ suite.cls = "TestIndexTimeline"
    /\ suite.file.exists
    /\ suite.file.items = Timeline
    /\ AllPass

----------------------------------------------------------------------------
(* C14: the previous/next links the navigation tests expect between the 13  *)
(* story pages form one linear chain in timeline order: pangu has no        *)
(* previous page, xingtian has no next page, next(p) = q exactly when       *)
(* previous(q) = p, and following "next" from pangu visits every page       *)
(* exactly once and ends at xingtian. The footer that carries exactly       *)
(* these links passes every navigation test of its page.                    *)
PageNames == { q.name : q \in Range(STORY_PAGES) }

PageOfFile(f) == (CHOOSE q \in Range(STORY_PAGES) : q.file = f).name

(* the page expected in direction dir of page p, "" if none is expected *)
Expected(p, dir) ==
    LET t == CHOOSE t \in Range(NavTests) : t.page = p /\ t.dir = dir
    IN  IF t.kind = "lacks" THEN "" ELSE PageOfFile(t.href)

RECURSIVE Follow(_, _)
Follow(p, n) == IF n = 0 \/ p = "" THEN <<>> ELSE <<p>> \o Follow(Expected(p, "next"), n - 1)

C14_Expected ==
    /\ Len(NavTests) = 2 * Len(STORY_PAGES)
    /\ \A p \in PageNames : \A dir \in {"previous", "next"} :
          Cardinality({ i \in DOMAIN NavTests : NavTests[i].page = p /\ NavTests[i].dir = dir }) = 1
    /\ \A t \in Range(NavTests) : t.kind = "has" => t.href \in { q.file : q \in Range(STORY_PAGES) }
    /\ Expected("pangu", "previous") = ""
    /\ Expected("xingtian", "next") = ""
    /\ \A p \in PageNames : \A q \in PageNames :
          Expected(p, "next") = q <=> Expected(q, "previous") = p
    /\ Follow("pangu", Len(STORY_PAGES) + 1) = [k \in DOMAIN STORY_PAGES |-> STORY_PAGES[k].name]

C14_Chain ==
    /\ C14_Expected
    /\ (/\ suite # NoSuite
        /\ suite.cls = "TestNavigationChain"
        /\ suite.file.exists
        /\ suite.file.has_footer
        /\ suite.file.footer = ChainFooter(suite.page)) =>
          \A t \in DOMAIN suite.results : suite.results[t] = "pass"

C14_Witness ==
    /\ suite # NoSuite
    /\ suite.cls = "TestNavigationChain"
    /\ suite.page = Len(STORY_PAGES)
    /\ suite.file.exists
    /\ suite.file.has_footer
    /\ suite.file.footer = ChainFooter(suite.page)
    /\ AllPass

----------------------------------------------------------------------------
(* C15: for every story page, the navigation tests of the page pass only    *)
(* when the "previous" link of its footer points to the preceding page and  *)
(* its "next" link points to the following page; a footer with the two      *)
(* targets swapped, or with the file names and titles present but not as    *)
(* these links, does not pass.                                              *)
LabelledLinks(footer, label) ==
    { i \in DOMAIN footer : footer[i].tag = "a" /\ label \in Range(footer[i].words) }

(* the links of the footer labelled label all point to page k, and there    *)
(* is one; no such link if there is no page k                               *)
PointsTo(footer, label, k) ==
    IF k \in PageNumbers
    THEN /\ LabelledLinks(footer, label) # {}
         /\ \A i \in LabelledLinks(footer, label) : footer[i].href = STORY_PAGES[k].file
    ELSE LabelledLinks(footer, label) = {}

NavRun ==
    /\ suite # NoSuite
    /\ suite.cls = "TestNavigationChain"
    /\ suite.setup
    /\ { t.test : t \in NavTestsOf(suite.page) } \subseteq DOMAIN suite.results

NavPass == NavRun /\ \A t \in NavTestsOf(suite.page) : suite.results[t.test] = "pass"

C15_NavLinks ==
    NavPass =>
        /\ PointsTo(get_footer_content(raws_get(suite.raws)), "previous:", suite.page - 1)
        /\ PointsTo(get_footer_content(raws_get(suite.raws)), "next:", suite.page + 1)

----------------------------------------------------------------------------
(* C16: a missing story page file, or a story page without a <footer>       *)
(* element, never goes unnoticed: no test of TestNavigationChain or         *)
(* TestHTMLStructure about that page passes.                                *)
C16_Noticed ==
    (/\ suite # NoSuite
     /\ suite.cls \in PageClasses
     /\ (~suite.file.exists \/ ~suite.file.has_footer)) =>
        \A t \in DOMAIN suite.results : suite.results[t] # "pass"

----------------------------------------------------------------------------
(* HTMLStructureParser of tests/test_myths_pages.py, fed by the tokenizer   *)
(* of html.parser one event at a time. Text is a sequence of pieces of      *)
(* character data; " " is a piece of white space. The fields the parser     *)
(* only appends to and never reads (all_tags, images, meta_tags, scripts,   *)
(* div_classes, p_classes, ai_items_count) are left out.                    *)

MaxEvents == 5

DataPieces == {"T", " "}

Hrefs == {"pangu.html"}

SectionIds == {"origin"}

DivClasses == {"timeline-item", "timeline-year"}

StartTags == {"h1", "h2", "h3", "p", "a", "section", "footer", "nav", "style", "script", "div"}

EndTags == StartTags

TextElements == {"h1", "h2", "h3", "p"}

(* elements whose content the tokenizer delivers as data up to their end tag *)
CDATA_CONTENT_ELEMENTS == {"script", "style"}

Attrs(tag) ==
    CASE tag = "a" -> { [href |-> h] : h \in Hrefs }
      [] tag = "section" -> { [id |-> i] : i \in SectionIds }
      [] tag = "div" -> { [class |-> c] : c \in DivClasses }
      [] OTHER -> { [none |-> ""] }

RECURSIVE lstrip(_)
lstrip(text) == IF text # <<>> /\ text[1] = " " THEN lstrip(Tail(text)) ELSE text

RECURSIVE rstrip(_)
rstrip(text) ==
    IF text # <<>> /\ text[Len(text)] = " " THEN rstrip(SubSeq(text, 1, Len(text) - 1)) ELSE text

strip(text) == rstrip(lstrip(text))

LinkRec(href, text) == [href |-> href, text |-> text]

(* what has been fed since the start tags still of interest: the data since *)
(* the last <a>, the data since the last start tag of each text element,    *)
(* the div elements that are open, innermost last, and the tags that are    *)
(* open, innermost last                                                     *)
NothingSeen ==
    [a_data |-> <<>>, data |-> [e \in TextElements |-> <<>>], divs |-> <<>>, open |-> <<>>]

HTMLStructureParser ==
    [tags_stack |-> <<>>,
     links |-> <<>>,
     current_tag |-> "None",
     current_attrs |-> [href |-> ""],
     in_h1 |-> FALSE, in_h2 |-> FALSE, in_h3 |-> FALSE, in_p |-> FALSE,
     in_footer |-> FALSE, in_nav |-> FALSE,
     in_section |-> FALSE,
     current_section_id |-> "None",
     h1_text |-> <<>>,
     h2_texts |-> <<>>, h3_texts |-> <<>>, p_texts |-> <<>>,
     footer_links |-> <<>>, nav_links |-> <<>>,
     style_content |-> <<>>,
     in_style |-> FALSE,
     section_depth |-> 0,
     current_text |-> <<>>,
     in_timeline_item |-> FALSE,
     timeline_item_links |-> <<>>,
     cdata_elem |-> "None",
     fed |-> 0,
     seen |-> NothingSeen]

SetLastText(links, text) ==
    IF links = <<>> THEN links ELSE [links EXCEPT ![Len(links)] = LinkRec(@.href, text)]

handle_starttag(p, tag, attrs) ==
    CASE tag = "h1" -> [p EXCEPT !.in_h1 = TRUE, !.current_text = <<>>]
      [] tag = "h2" -> [p EXCEPT !.in_h2 = TRUE, !.current_text = <<>>]
      [] tag = "h3" -> [p EXCEPT !.in_h3 = TRUE, !.current_text = <<>>]
      [] tag = "p" -> [p EXCEPT !.in_p = TRUE, !.current_text = <<>>]
      [] tag = "a" ->
            [p EXCEPT !.current_tag = "a",
                      !.current_attrs = [href |-> attrs.href],
                      !.current_text = <<>>,
                      !.footer_links = IF p.in_footer THEN Append(@, LinkRec(attrs.href, <<>>)) ELSE @,
                      !.nav_links = IF p.in_nav THEN Append(@, LinkRec(attrs.href, <<>>)) ELSE @]
      [] tag = "section" ->
            [p EXCEPT !.in_section = TRUE,
                      !.current_section_id = attrs.id,
                      !.section_depth = @ + 1]
      [] tag = "footer" -> [p EXCEPT !.in_footer = TRUE]
      [] tag = "nav" -> [p EXCEPT !.in_nav = TRUE]
      [] tag = "style" -> [p EXCEPT !.in_style = TRUE, !.current_text = <<>>]
      [] tag = "script" -> [p EXCEPT !.current_tag = "script", !.current_text = <<>>]
      [] tag = "div" ->
            [p EXCEPT !.in_timeline_item = IF attrs.class = "timeline-item" THEN TRUE ELSE @]

handle_endtag(p, tag) ==
    CASE tag = "h1" -> [p EXCEPT !.in_h1 = FALSE, !.h1_text = strip(p.current_text)]
      [] tag = "h2" -> [p EXCEPT !.in_h2 = FALSE, !.h2_texts = Append(@, strip(p.current_text))]
      [] tag = "h3" -> [p EXCEPT !.in_h3 = FALSE, !.h3_texts = Append(@, strip(p.current_text))]
      [] tag = "p" -> [p EXCEPT !.in_p = FALSE, !.p_texts = Append(@, strip(p.current_text))]
      [] tag = "a" ->
            IF p.current_tag = "a"
            THEN LET text == strip(p.current_text)
                     href == p.current_attrs.href
                 IN  [p EXCEPT !.links = Append(@, LinkRec(href, text)),
                               !.footer_links = IF p.in_footer THEN SetLastText(@, text) ELSE @,
                               !.nav_links = IF p.in_nav THEN SetLastText(@, text) ELSE @,
                               !.timeline_item_links =
                                   IF p.in_timeline_item THEN Append(@, LinkRec(href, text)) ELSE @,
                               !.current_tag = "None"]
            ELSE [p EXCEPT !.current_tag = "None"]
      [] tag = "section" ->
            IF p.section_depth - 1 <= 0
            THEN [p EXCEPT !.section_depth = @ - 1,
                           !.in_section = FALSE,
                           !.current_section_id = "None"]
            ELSE [p EXCEPT !.section_depth = @ - 1]
      [] tag = "footer" -> [p EXCEPT !.in_footer = FALSE]
      [] tag = "nav" -> [p EXCEPT !.in_nav = FALSE]
      [] tag = "style" -> [p EXCEPT !.in_style = FALSE, !.style_content = p.current_text]
      [] tag = "script" -> [p EXCEPT !.current_tag = "None"]
      [] tag = "div" -> [p EXCEPT !.in_timeline_item = FALSE]

(* four ifs in a row: each one that holds appends the data once more *)
handle_data(p, data) ==
    LET t1 == IF p.in_h1 \/ p.in_h2 \/ p.in_h3 \/ p.in_p
              THEN Append(p.current_text, data) ELSE p.current_text
        t2 == IF p.current_tag = "a" THEN Append(t1, data) ELSE t1
        t3 == IF p.in_style THEN Append(t2, data) ELSE t2
        t4 == IF p.current_tag = "script" THEN Append(t3, data) ELSE t3
    IN  [p EXCEPT !.current_text = t4]

(* the record of what was fed, kept next to the parser *)
SeenStart(s, tag, attrs) ==
    [s EXCEPT !.a_data = IF tag = "a" THEN <<>> ELSE @,
              !.data = [e \in TextElements |-> IF e = tag THEN <<>> ELSE @[e]],
              !.divs = IF tag = "div" THEN Append(@, attrs.class) ELSE @,
              !.open = Append(@, tag)]

(* the open tags once the end tag of tag is seen: the innermost open tag of *)
(* that name is closed, with what is open inside it                         *)
CloseTag(open, tag) ==
    IF tag \in Range(open)
    THEN SubSeq(open, 1, (CHOOSE i \in DOMAIN open :
                             open[i] = tag /\ \A j \in DOMAIN open : open[j] = tag => j <= i) - 1)
    ELSE open

SeenEnd(s, tag) ==
    [s EXCEPT !.divs = IF tag = "div" /\ @ # <<>> THEN SubSeq(@, 1, Len(@) - 1) ELSE @,
              !.open = CloseTag(@, tag)]

SeenData(s, data) ==
    [s EXCEPT !.a_data = Append(@, data),
              !.data = [e \in TextElements |-> Append(@[e], data)]]

CanFeed == parser # NoParser /\ parser.fed < MaxEvents

(* goahead of html.parser: a start tag, outside script and style content *)
FeedStartTag ==
    /\ CanFeed
    /\ parser.cdata_elem = "None"
    /\ \E tag \in StartTags : \E attrs \in Attrs(tag) :
          parser' = [handle_starttag(parser, tag, attrs) EXCEPT
                        !.cdata_elem = IF tag \in CDATA_CONTENT_ELEMENTS THEN tag ELSE "None",
                        !.fed = @ + 1,
                        !.seen = SeenStart(@, tag, attrs)]
    /\ UNCHANGED <<suite, checkout, fs, dirs, run, script, inv, status, pc, exc, exitcode,
                   locals, stdout, written, prevOut>>

(* an end tag; inside script or style content only the element's own *)
FeedEndTag ==
    /\ CanFeed
    /\ \E tag \in EndTags :
          /\ parser.cdata_elem # "None" => tag = parser.cdata_elem
          /\ parser' = [handle_endtag(parser, tag) EXCEPT
                           !.cdata_elem = "None",
                           !.fed = @ + 1,
                           !.seen = SeenEnd(@, tag)]
    /\ UNCHANGED <<suite, checkout, fs, dirs, run, script, inv, status, pc, exc, exitcode,
                   locals, stdout, written, prevOut>>

FeedData ==
    /\ CanFeed
    /\ \E data \in DataPieces :
          parser' = [handle_data(parser, data) EXCEPT
                        !.fed = @ + 1,
                        !.seen = SeenData(@, data)]
    /\ UNCHANGED <<suite, checkout, fs, dirs, run, script, inv, status, pc, exc, exitcode,
                   locals, stdout, written, prevOut>>

InitParser ==
    /\ NoProcess
    /\ suite = NoSuite
    /\ parser = HTMLStructureParser

NextParser ==
    \/ FeedStartTag
    \/ FeedEndTag
    \/ FeedData

SpecParser == InitParser /\ [][NextParser]_vars

LastOf(seq) == seq[Len(seq)]

----------------------------------------------------------------------------
(* C17: for every <a> element, the text the parser records for the link in  *)
(* links, footer_links, nav_links and timeline_item_links is the            *)
(* concatenation (stripped, as the parser strips it) of the character data  *)
(* between that <a> and its </a>, each piece once, whatever element the     *)
(* link is nested in.                                                       *)
LinkClosed == Len(parser'.links) = Len(parser.links) + 1

C17_LinkText ==
    [][LinkClosed =>
         LET text == strip(parser.seen.a_data)
         IN  /\ LastOf(parser'.links).text = text
             /\ (parser.in_footer /\ parser.footer_links # <<>>) =>
                   LastOf(parser'.footer_links).text = text
             /\ (parser.in_nav /\ parser.nav_links # <<>>) =>
                   LastOf(parser'.nav_links).text = text
             /\ Len(parser'.timeline_item_links) > Len(parser.timeline_item_links) =>
                   LastOf(parser'.timeline_item_links).text = text]_vars

----------------------------------------------------------------------------
(* C18: for every h1, h2, h3 and p element, the text the parser records at  *)
(* the end tag (h1_text, h2_texts, h3_texts, p_texts) is the stripped       *)
(* concatenation of all character data between the start tag and the end    *)
(* tag of the element, also with an <a>, <script> or <style> nested in it.  *)
C18_ElementText ==
    [][/\ (parser.in_h1 /\ ~parser'.in_h1) => parser'.h1_text = strip(parser.seen.data["h1"])
       /\ (parser.in_h2 /\ ~parser'.in_h2) =>
             LastOf(parser'.h2_texts) = strip(parser.seen.data["h2"])
       /\ (parser.in_h3 /\ ~parser'.in_h3) =>
             LastOf(parser'.h3_texts) = strip(parser.seen.data["h3"])
       /\ (parser.in_p /\ ~parser'.in_p) =>
             LastOf(parser'.p_texts) = strip(parser.seen.data["p"])]_vars

----------------------------------------------------------------------------
(* C19: in_timeline_item is true exactly while the parser is between the    *)
(* start tag of a div of class timeline-item and the end tag matching that  *)
(* div, nested divs included.                                               *)
InTimelineItemDiv == "timeline-item" \in Range(parser.seen.divs)

C19_InTimelineItem == parser # NoParser => (parser.in_timeline_item <=> InTimelineItemDiv)

----------------------------------------------------------------------------
(* C20: after any sequence of start-tag and end-tag events, section_depth   *)
(* is not negative, in_section is true exactly when section_depth > 0, and  *)
(* current_section_id is None whenever in_section is false.                 *)
C20_SectionDepth ==
    parser # NoParser =>
        /\ parser.section_depth >= 0
        /\ parser.in_section <=> parser.section_depth > 0
        /\ ~parser.in_section => parser.current_section_id = "None"

----------------------------------------------------------------------------
(* C21: after any sequence of events, tags_stack holds the tags that are    *)
(* open, in nesting order: a tag is pushed when its start tag is seen and   *)
(* popped when its end tag is seen.                                         *)
C21_TagsStack == parser # NoParser => parser.tags_stack = parser.seen.open

----------------------------------------------------------------------------
(* The rendering pipeline of generate_logos_v2.py, from its own source, and *)
(* finalize_fast of either script as a function from the draw function and  *)
(* the name to the two files it saves                                       *)

(* CANVAS of generate_logos_v2.py at half the size of the other generator *)
CANVAS_v2_Half == CANVAS \div 2

CANVAS_v2 == 2048

OUTPUT_v2 == 512

WHITE_A_v2(a) == <<255, 255, 255, Min(255, Max(0, a))>>

new_canvas_v2(bg) ==
    IF bg = "black"
    THEN ImageNew("RGBA", <<CANVAS_v2, CANVAS_v2>>, <<0, 0, 0, 255>>)
    ELSE ImageNew("RGBA", <<CANVAS_v2, CANVAS_v2>>, <<0, 0, 0, 0>>)

draw_circle_v2(cx, cy, radius, color, width) ==
    <<DrawOp("ellipse", <<cx - radius, cy - radius, cx + radius, cy + radius>>,
             0, 0, NoColor, color, width, NoPoints, "")>>

draw_dot_v2(cx, cy, radius, color) ==
    <<DrawOp("ellipse", <<cx - radius, cy - radius, cx + radius, cy + radius>>,
             0, 0, color, NoColor, 1, NoPoints, "")>>

draw_arc_v2(cx, cy, radius, start_deg, end_deg, color, width) ==
    <<DrawOp("arc", <<cx - radius, cy - radius, cx + radius, cy + radius>>,
             start_deg, end_deg, color, NoColor, width, NoPoints, "")>>

draw_smooth_line_v2(points, color, width) ==
    IF points.n < 2 THEN <<>>
    ELSE <<DrawOp("line", <<>>, 0, 0, color, NoColor, width, points, "curve")>>

Saved(name, img) == [name |-> name, file |-> Content(PngFile(img))]

Rendered_png(draw_func, name) ==
    LET img_dark == Draw(new_canvas("black"), draw_func)
        dark == Resize(img_dark, <<OUTPUT, OUTPUT>>, "LANCZOS")
        img_trans == Draw(new_canvas("transparent"), draw_func)
        trans == Resize(img_trans, <<OUTPUT, OUTPUT>>, "LANCZOS")
    IN  << Saved(name \o "_dark.png", dark), Saved(name \o "_transparent.png", trans) >>

Rendered_v2(draw_func, name) ==
    LET img_dark == Draw(new_canvas_v2("black"), draw_func)
        dark == Resize(img_dark, <<OUTPUT_v2, OUTPUT_v2>>, "LANCZOS")
        img_trans == Draw(new_canvas_v2("transparent"), draw_func)
        trans == Resize(img_trans, <<OUTPUT_v2, OUTPUT_v2>>, "LANCZOS")
    IN  << Saved(name \o "_dark.png", dark), Saved(name \o "_transparent.png", trans) >>

Rendered(s, draw_func, name) ==
    IF s = "generate_logos_v2.py" THEN Rendered_v2(draw_func, name) ELSE Rendered_png(draw_func, name)

VersionsOf(s) == IF s = "generate_logos_v2.py" THEN V2_VERSIONS ELSE VERSIONS

(* arguments the drawing helpers are compared on *)
SampleCoords == {0, CENTER, CANVAS}

SampleRadii == {1, 28, 600}

SampleColors == {WHITE, WHITE_A(128), WHITE_A(300)}

SampleWidths == {THIN, NORMAL, THICK}

SampleDegrees == {0, 90, 360}

SamplePoints == { Points(Curve("v6_golden_spiral", "arm", 1), n) : n \in {0, 1, 2, 2000} }

----------------------------------------------------------------------------
(* C22: the rendering pipeline of generate_logos_v2.py is that of           *)
(* generate_logos_png.py: the same CANVAS, OUTPUT and LANCZOS resize, the    *)
(* same new_canvas, WHITE_A and drawing helpers, and the same draw function *)
(* and name given to the finalize_fast of either script yield the same two  *)
(* files; the files a completed run of either script has saved are those.   *)
C22_Helpers ==
    /\ CANVAS_v2 = CANVAS
    /\ OUTPUT_v2 = OUTPUT
    /\ \A bg \in {"black", "transparent"} : new_canvas_v2(bg) = new_canvas(bg)
    /\ \A a \in {-1, 0, 128, 255, 256} : WHITE_A_v2(a) = WHITE_A(a)
    /\ \A cx \in SampleCoords : \A cy \in SampleCoords : \A r \in SampleRadii :
       \A color \in SampleColors :
          /\ draw_dot_v2(cx, cy, r, color) = draw_dot(cx, cy, r, color)
          /\ \A w \in SampleWidths :
                /\ draw_circle_v2(cx, cy, r, color, w) = draw_circle(cx, cy, r, color, w)
                /\ \A a \in SampleDegrees : \A b \in SampleDegrees :
                      draw_arc_v2(cx, cy, r, a, b, color, w) = draw_arc(cx, cy, r, a, b, color, w)
    /\ \A pts \in SamplePoints : \A color \in SampleColors : \A w \in SampleWidths :
          draw_smooth_line_v2(pts, color, w) = draw_smooth_line(pts, color, w)

C22_SamePipeline ==
    /\ C22_Helpers
    /\ \A f \in DOMAIN DrawFuncs : Rendered_v2(f, f) = Rendered_png(f, f)
    /\ (status = "done" /\ script \in PngScripts) =>
          \A i \in DOMAIN VersionsOf(script) : \A j \in DOMAIN VARIANTS :
              LET v == VersionsOf(script)[i]
                  path == join(OUTPUT_DIR, v \o VARIANTS[j])
              IN  /\ path \in DOMAIN fs
                  /\ Rendered(script, v, v)[j].name = v \o VARIANTS[j]
                  /\ Content(fs[path]) = Rendered(script, v, v)[j].file

C22_Witness ==
    /\ status = "done"
    /\ script = "generate_logos_png.py"
    /\ join(OUTPUT_DIR, "v8_yuanchu_unity_transparent.png") \in DOMAIN fs
    /\ Content(fs[join(OUTPUT_DIR, "v8_yuanchu_unity_transparent.png")])
          = Rendered_v2("v8_yuanchu_unity", "v8_yuanchu_unity")[2].file

----------------------------------------------------------------------------
(* C23: in every v2 design (v2a to v2e) all coordinates passed to drawing   *)
(* calls lie inside the 2048 x 2048 canvas, the width of the lines          *)
(* included, so no part of a shape is cut off at the canvas edge.           *)
InsideCanvas(box) ==
    /\ box[1] >= 0
    /\ box[2] >= 0
    /\ box[3] <= CANVAS - 1
    /\ box[4] <= CANVAS - 1

DrawnInside(ops) == \A i \in DOMAIN ops : ops[i].op # "resize" => InsideCanvas(Extent(ops[i]))

C23_InsideCanvas ==
    /\ \A i \in DOMAIN V2_VERSIONS : DrawnInside(DrawFuncs[V2_VERSIONS[i]])
    /\ script = "generate_logos_v2.py" =>
          /\ \A v \in Locals : DrawnInside(locals[v].ops)
          /\ \A p \in DOMAIN fs : DrawnInside(fs[p].ops)

C23_Witness ==
    /\ script = "generate_logos_v2.py"
    /\ status = "done"
    /\ \A p \in ExpectedPaths(script) :
          /\ p \in DOMAIN fs /\ fs[p].complete
          /\ Len(fs[p].ops) > 1
          /\ DrawnInside(fs[p].ops)

----------------------------------------------------------------------------
(* The points of v2e_gravitational_deflection.  The deflection              *)
(* dx = -strength * x0_off / dist_sq ** 0.75 is kept as its sign, its       *)
(* numerator and dist_sq; its value is sign * num / dist_sq ** 0.75.        *)
v2e_offsets == <<-480, -320, -160, 0, 160, 320, 480>>

v2e_ys == { y \in (CENTER - 750)..(CENTER + 750) : (y - (CENTER - 750)) % 2 = 0 }

NoDeflection == [sign |-> 0, num |-> 0, dist_sq |-> 1]

(* v2e with a strength of 90000 *)
v2e_dx_Strong(x0_off, dy) ==
    IF x0_off = 0 THEN NoDeflection
    ELSE [sign |-> IF x0_off > 0 THEN -1 ELSE 1,
          num |-> 90000 * Abs(x0_off),
          dist_sq |-> x0_off * x0_off + dy * dy]

v2e_dx(x0_off, dy) ==
    IF x0_off = 0 THEN NoDeflection
    ELSE [sign |-> IF x0_off > 0 THEN -1 ELSE 1,
          num |-> 900 * Abs(x0_off),
          dist_sq |-> x0_off * x0_off + dy * dy]

v2e_point(x0_off, y) == [x0 |-> CENTER + x0_off, dx |-> v2e_dx(x0_off, y - CENTER), y |-> y]

(* the point at the same height on the other side of the centre axis *)
Mirror(pt) == [x0 |-> 2 * CENTER - pt.x0, dx |-> [pt.dx EXCEPT !.sign = -@], y |-> pt.y]

(* floor(sqrt(d)) * floor(sqrt(floor(sqrt(d)))) <= d ** 0.75 *)
PowBelow(d) == ISqrt(d, 1) * ISqrt(ISqrt(d, 1), 1)

(* |dx| < bound, shown by num < bound * PowBelow(dist_sq) *)
SmallerThan(dx, bound) == dx.num < bound * PowBelow(dx.dist_sq)

v2e_lines(ops) ==
    SelectSeq(ops, LAMBDA o : o.op = "line" /\ o.pts.curve.design = "v2e_gravitational_deflection")

----------------------------------------------------------------------------
(* C24: in v2e_gravitational_deflection the seven lines are mirror images   *)
(* of each other about the vertical centre axis (the line at offset -x is   *)
(* the mirror image of the line at offset +x at every y, with the same      *)
(* colour and width), the centre line is not deflected (dx = 0 at every y), *)
(* and every other line is bent towards the centre without reaching or      *)
(* crossing it (0 < |dx| < |x0_off| at every y).                            *)
C24_Points ==
    /\ Len(v2e_offsets) = 7
    /\ \A i \in DOMAIN v2e_offsets : v2e_offsets[8 - i] = -v2e_offsets[i]
    /\ \A i \in DOMAIN v2e_offsets : \A y \in v2e_ys :
          LET x0_off == v2e_offsets[i]
              pt == v2e_point(x0_off, y)
          IN  /\ Mirror(pt) = v2e_point(-x0_off, y)
              /\ x0_off = 0 => pt.dx = NoDeflection
              /\ x0_off # 0 =>
                    /\ pt.dx.dist_sq >= 1
                    /\ pt.dx.num > 0
                    /\ pt.dx.sign = (IF x0_off > 0 THEN -1 ELSE 1)
                    /\ SmallerThan(pt.dx, Abs(x0_off))

C24_Mirror ==
    /\ C24_Points
    /\ \A p \in DOMAIN fs :
          LET lines == v2e_lines(fs[p].ops)
          IN  lines # <<>> =>
                /\ Len(lines) = 7
                /\ \A i \in 1..7 :
                      /\ lines[i].pts.curve.i = v2e_offsets[i]
                      /\ lines[i].pts.n = Cardinality(v2e_ys)
                      /\ lines[8 - i].fill = lines[i].fill
                      /\ lines[8 - i].width = lines[i].width

C24_Witness ==
    /\ status = "done"
    /\ script = "generate_logos_v2.py"
    /\ \E p \in DOMAIN fs : fs[p].complete /\ Len(v2e_lines(fs[p].ops)) = 7

----------------------------------------------------------------------------
(* The polylines of v2d_light_cone_diamond.  A vertex                       *)
(* (CENTER + r * cos(angle), CENTER + r * sin(angle)) is kept as r and the  *)
(* angle in degrees.                                                        *)
v2d_radii == <<550, 400, 260, 130>>

v2d_rotations == <<0, 10, 20, 30>>

Polar(r, deg) == [cx |-> CENTER, cy |-> CENTER, r |-> r, deg |-> deg]

(* v2d without vertices.append(vertices[0]) *)
v2d_vertices_Open(r, rot) ==
    LET base_rot == 45 + rot
    IN  [corner \in 1..4 |-> Polar(r, base_rot + (corner - 1) * 90)]

v2d_vertices(r, rot) ==
    LET base_rot == 45 + rot
        vertices == [corner \in 1..4 |-> Polar(r, base_rot + (corner - 1) * 90)]
    IN  Append(vertices, vertices[1])

(* the vertex turned by 90 degrees about the centre of the canvas *)
Rotate90(v) == [v EXCEPT !.deg = @ + 90]

(* the same point of the plane: angles are taken modulo 360 *)
Place(v) == [v EXCEPT !.deg = @ % 360]

v2d_squares(ops) ==
    SelectSeq(ops, LAMBDA o : o.op = "line" /\ o.pts.curve.design = "v2d_light_cone_diamond")

----------------------------------------------------------------------------
(* C25: v2d_light_cone_diamond draws exactly four closed squares centred on *)
(* the centre of the canvas, with strictly decreasing radii                 *)
(* 550 > 400 > 260 > 130; each polyline ends at its first vertex, and the   *)
(* set of vertices of each square is unchanged by a rotation of 90 degrees  *)
(* about the centre.                                                        *)
C25_Vertices ==
    /\ v2d_radii = <<550, 400, 260, 130>>
    /\ \A i \in 1..3 : v2d_radii[i] > v2d_radii[i + 1]
    /\ \A i \in DOMAIN v2d_radii :
          LET vertices == v2d_vertices(v2d_radii[i], v2d_rotations[i])
              places == { Place(vertices[k]) : k \in DOMAIN vertices }
          IN  /\ Len(vertices) = 5
              /\ vertices[Len(vertices)] = vertices[1]
              /\ Cardinality(places) = 4
              /\ \A v \in places : v.cx = CENTER /\ v.cy = CENTER /\ v.r = v2d_radii[i]
              /\ { Place(Rotate90(v)) : v \in places } = places

C25_Squares ==
    /\ C25_Vertices
    /\ \A p \in DOMAIN fs :
          LET squares == v2d_squares(fs[p].ops)
          IN  squares # <<>> =>
                /\ Len(squares) = 4
                /\ \A i \in 1..4 :
                      /\ squares[i].pts.curve.i = v2d_radii[i]
                      /\ squares[i].pts.n = Len(v2d_vertices(v2d_radii[i], v2d_rotations[i]))

C25_Witness ==
    /\ status = "done"
    /\ script = "generate_logos_v2.py"
    /\ \E p \in DOMAIN fs : fs[p].complete /\ Len(v2d_squares(fs[p].ops)) = 4

----------------------------------------------------------------------------
(* C26: v4_tao_layers draws, around one centre dot, layer One with 1 arc,   *)
(* layer Two with 2 arcs and layer Three with 3 arcs, at strictly           *)
(* increasing radii (240 < 420 < 600) and non-increasing opacity; within    *)
(* layer Two and within layer Three the arcs have equal angular length and  *)
(* are evenly spaced around the circle.                                     *)
ArcRadius(o) == (o.bbox[3] - o.bbox[1]) \div 2

ArcLength(o) == o.end - o.start

Arcs(ops) == { i \in DOMAIN ops : ops[i].op = "arc" }

Layer(ops, radius) == { i \in Arcs(ops) : ArcRadius(ops[i]) = radius }

(* k arcs of one length, each followed a k-th of the circle later by another *)
EvenlySpaced(ops, layer) ==
    LET k == Cardinality(layer)
    IN  /\ \A i \in layer : \A j \in layer : ArcLength(ops[i]) = ArcLength(ops[j])
        /\ k > 1 =>
              \A i \in layer : \E j \in layer :
                  (ops[j].start - ops[i].start) % 360 = 360 \div k

TaoLayers(ops) ==
    /\ Cardinality({ i \in DOMAIN ops : ops[i].op = "ellipse" }) = 1
    /\ { ArcRadius(ops[i]) : i \in Arcs(ops) } = {240, 420, 600}
    /\ Cardinality(Layer(ops, 240)) = 1
    /\ Cardinality(Layer(ops, 420)) = 2
    /\ Cardinality(Layer(ops, 600)) = 3
    /\ \A i \in Arcs(ops) : \A j \in Arcs(ops) :
          ArcRadius(ops[i]) < ArcRadius(ops[j]) => ops[i].fill[4] >= ops[j].fill[4]
    /\ EvenlySpaced(ops, Layer(ops, 420))
    /\ EvenlySpaced(ops, Layer(ops, 600))

IsV4(p) == BaseName(p) \in {"v4_tao_layers_dark.png", "v4_tao_layers_transparent.png"}

C26_TaoLayers ==
    \A p \in DOMAIN fs :
        (IsV4(p) /\ fs[p].complete) =>
            TaoLayers(SelectSeq(fs[p].ops, LAMBDA o : o.op # "resize"))

----------------------------------------------------------------------------
(* The points of v2c_tao_emergence.  A point                                *)
(* (ax + r * cos(angle), ay + r * sin(angle)) is kept as the point (ax, ay) *)
(* it is measured from and r = rnum / rden; it is that point when r = 0.    *)
v2c_n(part) == CASE part = "one" -> 600 [] part = "two" -> 500 [] part = "three" -> 400

Dot == [part |-> "dot", branch |-> 0, i |-> 0]

PointAt(part, branch, i) == [part |-> part, branch |-> branch, i |-> i]

(* points_one[-1], and branch[-1] of the branch-th entry of branches_two *)
EndOfTrunk == PointAt("one", 0, v2c_n("one") - 1)

EndOfBranch(branch) == PointAt("two", branch, v2c_n("two") - 1)

v2c_point(part, branch, i) ==
    CASE part = "one" ->
            [from |-> Dot, rnum |-> 70 * (v2c_n("one") - 1) + (520 - 70) * i, rden |-> v2c_n("one") - 1]
      [] part = "two" ->
            [from |-> EndOfTrunk, rnum |-> i * 320, rden |-> 499]
      [] part = "three" ->
            [from |-> EndOfBranch(branch), rnum |-> i * 220, rden |-> 399]

IsPoint(pt, place) == pt.from = place /\ pt.rnum = 0

v2c_curves(ops, part) ==
    SelectSeq(ops, LAMBDA o : /\ o.op = "line"
                              /\ o.pts.curve.design = "v2c_tao_emergence"
                              /\ o.pts.curve.part = part)

----------------------------------------------------------------------------
(* C27: v2c_tao_emergence draws one trunk, two branches that both start at  *)
(* the end point of the trunk, and three sub-arcs starting at the end point *)
(* of each branch (six in all); the line width strictly decreases with each *)
(* generation: trunk wider than branches, branches wider than sub-arcs.     *)
C27_Starts ==
    /\ ~IsPoint(v2c_point("one", 0, 0), Dot)
    /\ \A b \in 1..2 :
          /\ IsPoint(v2c_point("two", b, 0), EndOfTrunk)
          /\ \A i \in 1..(v2c_n("two") - 1) : ~IsPoint(v2c_point("two", b, i), EndOfTrunk)
          /\ IsPoint(v2c_point("three", b, 0), EndOfBranch(b))
          /\ \A i \in 1..(v2c_n("three") - 1) : ~IsPoint(v2c_point("three", b, i), EndOfBranch(b))
    /\ EndOfBranch(1) # EndOfBranch(2)

C27_Generations ==
    /\ C27_Starts
    /\ \A p \in DOMAIN fs :
          LET one == v2c_curves(fs[p].ops, "one")
              two == v2c_curves(fs[p].ops, "two")
              three == v2c_curves(fs[p].ops, "three")
          IN  one \o two \o three # <<>> =>
                /\ Len(one) = 1 /\ Len(two) = 2 /\ Len(three) = 6
                /\ \A i \in DOMAIN one : one[i].pts.n = v2c_n("one")
                /\ \A i \in DOMAIN two : two[i].pts.n = v2c_n("two") /\ two[i].pts.curve.i = i
                /\ \A b \in 1..2 :
                      Cardinality({ i \in DOMAIN three : three[i].pts.curve.i \div 3 = b }) = 3
                /\ \A i \in DOMAIN three : three[i].pts.n = v2c_n("three")
                /\ \A i \in DOMAIN two : one[1].width > two[i].width
                /\ \A i \in DOMAIN two : \A j \in DOMAIN three : two[i].width > three[j].width

C27_Witness ==
    /\ status = "done"
    /\ script = "generate_logos_v2.py"
    /\ \E p \in DOMAIN fs : fs[p].complete /\ Len(v2c_curves(fs[p].ops, "three")) = 6

----------------------------------------------------------------------------
(* C28: in v6_golden_spiral neither loop guard ever fires: for each of the  *)
(* 3 arms and every t in 0..1999 the radius satisfies 30 <= r <= max_r, so  *)
(* the break on r > max_r and the continue on r < 30 are never taken, every *)
(* arm has exactly 2000 points, and draw_smooth_line draws every arm.       *)
v6_arms(ops) ==
    SelectSeq(ops, LAMBDA o : o.op = "line" /\ o.pts.curve.design = "v6_golden_spiral")

C28_Guards ==
    /\ (CANVAS * 44) \div 100 > 30
    /\ \A t \in 0..1999 : ~v6_breaks(t) /\ ~v6_continues(t)
    /\ v6_appended = 0..1999

C28_NoGuardFires ==
    /\ C28_Guards
    /\ \A p \in DOMAIN fs :
          (BaseName(p) \in {"v6_golden_spiral_dark.png", "v6_golden_spiral_transparent.png"}
             /\ fs[p].complete) =>
                LET arms == v6_arms(fs[p].ops)
                IN  /\ Len(arms) = 3
                    /\ \A a \in 1..3 : arms[a].pts.curve.i = a - 1 /\ arms[a].pts.n = 2000

C28_Witness ==
    /\ status = "done"
    /\ script = "generate_logos_png.py"
    /\ \E p \in DOMAIN fs :
          /\ BaseName(p) = "v6_golden_spiral_transparent.png"
          /\ fs[p].complete
          /\ Len(v6_arms(fs[p].ops)) = 3

----------------------------------------------------------------------------
(* The colours of a drawing.  draw_dot is the only helper that fills an     *)
(* ellipse, and every design calls it with WHITE; every other shape is      *)
(* drawn in the colour WHITE_A returned.                                    *)
AlphaInputs == -300..600

IsDot(o) == o.op = "ellipse" /\ o.fill # NoColor

StrokeColor(o) == IF o.op = "ellipse" THEN o.outline ELSE o.fill

Strokes(ops) == SelectSeq(ops, LAMBDA o : o.op # "resize" /\ ~IsDot(o))

Dots(ops) == SelectSeq(ops, LAMBDA o : o.op # "resize" /\ IsDot(o))

(* an alpha strictly between 0 and 255 is the argument itself: the clamp    *)
(* maps every argument outside 0..255 to 0 or to 255                        *)
PassedUnchanged(ops) ==
    /\ \A i \in DOMAIN Dots(ops) : Dots(ops)[i].fill = WHITE
    /\ \A i \in DOMAIN Strokes(ops) :
          LET c == StrokeColor(Strokes(ops)[i])
          IN  /\ c = <<255, 255, 255, c[4]>>
              /\ c[4] \in 1..254

C29_Clamp ==
    \A a \in AlphaInputs :
        /\ WHITE_A(a) = <<255, 255, 255, Min(255, Max(0, a))>>
        /\ WHITE_A_v2(a) = WHITE_A(a)
        /\ WHITE_A(a)[4] \in 0..255
        /\ a \in 0..255 <=> WHITE_A(a)[4] = a
        /\ WHITE_A(a)[4] \in 1..254 => WHITE_A(a)[4] = a

(* C29: WHITE_A(a) returns (255, 255, 255, alpha) with alpha =              *)
(* min(255, max(0, a)), which is in 0..255 for every integer a; and every   *)
(* alpha the 13 design functions pass to WHITE_A is already in 0..255, so   *)
(* the clamp never changes a value: every shape of every design, of every   *)
(* image being drawn and of every saved file carries the alpha it asked for.*)
C29_Alpha ==
    /\ C29_Clamp
    /\ \A d \in DOMAIN DrawFuncs : PassedUnchanged(DrawFuncs[d])
    /\ \A v \in Locals : PassedUnchanged(locals[v].ops)
    /\ \A p \in DOMAIN fs : PassedUnchanged(fs[p].ops)

C29_Witness ==
    /\ status = "done"
    /\ \A p \in ExpectedPaths(script) :
          /\ p \in DOMAIN fs /\ fs[p].complete
          /\ Len(Strokes(fs[p].ops)) >= 1
          /\ PassedUnchanged(fs[p].ops)
    /\ \E p \in DOMAIN fs :
          /\ BaseName(p) = "v7_lensing_rings_transparent.png"
          /\ Len(Strokes(fs[p].ops)) = 5

====
